---- MODULE Spec2Model ----
(***************************************************************************)
(* A model of the SensCord Python binding: the schema-driven structure     *)
(* serializer (serialize.py), the temporal-contrast event-stream parser    *)
(* (_temporal_contrast_data.py) and the property-key composer              *)
(* (senscord_property_utils.py).                                           *)
(***************************************************************************)
EXTENDS Integers, Sequences, FiniteSets, TLC

VARIABLES
    \* ---- serializer: one Structure instance and what was made from it
    kind,       \* class name of the Structure instance
    obj,        \* the instance (its fields, in _fields_ order)
    orig,       \* the instance as it was before the last encode
    wire,       \* result of the last to_bytes() (the msgpack tree)
    tree,       \* result of the last to_dict()
    inDict,     \* argument of the last from_dict()
    dec,        \* instance produced by the last from_bytes()/from_dict()
    serOp,      \* last serializer operation
    nSet,       \* number of field assignments made
    \* ---- event-stream parser: one TemporalContrastData.from_bytes call
    buf,        \* the raw buffer: its size and what it holds
    tcPc,       \* position inside from_bytes
    tcCount,    \* local "count"
    tcBundles,  \* local "bundles"
    tcOffset,   \* local "offset"
    tcSlice,    \* the TemporalContrastEventsTimeslice under construction
    tcReads,    \* byte offsets of the buffer read so far by this call
    dataCount,  \* attribute "count" of the TemporalContrastData object
    dataBundles,\* attribute "bundles" of the object
    dataBefore, \* the two attributes as they were when the call began
    \* ---- one TemporalContrastEventArray and the last access made to it
    events,     \* the view: address, count, cursor
    evOp,       \* last operation on the view
    evArg,      \* its argument
    evResult,   \* what it returned or raised
    evDerefs,   \* record indices dereferenced by it
    evSeen,     \* what each iteration over the returned tuple produced
    evYielded,  \* the records __next__ has returned so far, in order
    \* ---- property key composer: PropertyUtils.set_channel_id calls
    keyArg,     \* argument "key"
    keyShape,   \* how the key was built: base, bracket, attributes
    channelId,  \* argument "channel_id"
    keyParam,   \* the PropertyUtilsParam of the last call
    keyResult,  \* what the last call returned
    keyOp,      \* last operation
    keyCalls,   \* number of calls made
    keyPast,    \* the earlier calls of the chain: key, channel id, result
    \* ---- one CEnum value and the last operation made on it
    enumCls,    \* its class
    enumN,      \* the Python int it is constructed from
    enumVal,    \* the c_int value it holds
    enumOp,     \* last operation
    enumOther,  \* the other operand of a comparison
    enumResult, \* what the operation returned
    \* ---- instances of one structure kind and the objects they hold
    heap,       \* the container objects, by identity: heap[id] is the content
    insts,      \* the instances constructed so far: field -> object identity
    instOp,     \* last operation
    instActor,  \* the instance it was made on
    instOps,    \* number of operations made on instances
    \* ---- the size check of one bundle header
    sizeCount,  \* the event count read from the header
    sizeRemain, \* argument "size": the bytes that remain at the bundle
    sizeData,   \* self.data_size
    sizeOp,     \* "init", or how the constructor went on
    \* ---- Core.close_stream on the streams of one Core
    streams,    \* _stream_handle of each Stream
    closePc,    \* "idle", or "native" inside core_close_stream
    closeStream, \* the Stream given to the call in progress or last made
    closeSaved, \* local stream_handle of close_stream
    closeRaised, \* what the last call raised, "none" when it returned
    lastClose,  \* how the last close attempted on each Stream ended
    closedOnce, \* whether a close of the Stream has succeeded
    closeCalls, \* number of calls made
    \* ---- Core._load_library called from several threads
    loadPc,     \* where each thread is in _load_library, "idle" outside
    lockHolder, \* the thread that holds Core._lock, 0 when it is free
    coreLoaded, \* Core._loaded
    senscordDll, \* SensCordC._senscord_dll: "None" or "CDLL"
    senscordPyDll, \* SensCordC._senscord_py_dll: "None" or "CDLL"
    loadPlatform, \* platform.system()
    loadRaised, \* how the last call of each thread ended
    cdllLoads,  \* number of times ctypes.CDLL(path) has loaded the library
    loadCalls   \* number of calls made

serVars == <<kind, obj, orig, wire, tree, inDict, dec, serOp, nSet>>
tcVars == <<buf, tcPc, tcCount, tcBundles, tcOffset, tcSlice, tcReads,
            dataCount, dataBundles, dataBefore>>
evVars == <<events, evOp, evArg, evResult, evDerefs, evSeen, evYielded>>
keyVars ==
    <<keyArg, keyShape, channelId, keyParam, keyResult, keyOp, keyCalls,
      keyPast>>

enumVars == <<enumCls, enumN, enumVal, enumOp, enumOther, enumResult>>

instVars == <<heap, insts, instOp, instActor, instOps>>

\* the components that the first five leave alone
sizeVars == <<sizeCount, sizeRemain, sizeData, sizeOp>>
closeVars ==
    <<streams, closePc, closeStream, closeSaved, closeRaised, lastClose,
      closedOnce, closeCalls>>
loadVars ==
    <<loadPc, lockHolder, coreLoaded, senscordDll, senscordPyDll, loadPlatform,
      loadRaised, cdllLoads, loadCalls>>
laterVars == <<instVars, sizeVars, closeVars, loadVars>>

vars == <<serVars, tcVars, evVars, keyVars, enumVars, laterVars>>

(***************************************************************************)
(* Bounds of the model.                                                    *)
(***************************************************************************)
MaxInt == 1      \* integer field values range over 0..MaxInt
MaxLen == 2      \* lists and dicts hold at most MaxLen entries
MaxSets == 1     \* field assignments made on one instance
MaxBundles == 2  \* bundles laid out in a buffer
MaxEvents == 2   \* events laid out in one bundle
MaxStep == 2     \* slice steps range over -MaxStep..MaxStep
MaxIter == 2     \* iterations made over one returned tuple
MaxAttrs == 2    \* attributes written in one property key
MaxInsts == 2    \* instances constructed of one kind
MaxInstOps == 2  \* operations made on the instances
MaxStreams == 2  \* streams opened on the Core
MaxHandle == 2   \* native stream handles range over 1..MaxHandle
MaxCloses == 3   \* close_stream calls made
MaxThreads == 2  \* threads that call _load_library
MaxLoadCalls == 3 \* _load_library calls made in all
MaxCalls == 2    \* set_channel_id calls chained on one key
MaxKeyLen == 3   \* length of the keys written freely over brackets
MaxOutside == 2  \* enum integers range this far outside the enum's table
MaxWrap == 1     \* Python ints range over -MaxWrap..MaxWrap times 2^32

(***************************************************************************)
(* Python values.  Every value is a record of the same shape, so that any  *)
(* two values can be compared: t is the Python type, i an integer payload, *)
(* s a text payload (or a class name), l the children.                     *)
(***************************************************************************)
Val(t, i, s, l) == [t |-> t, i |-> i, s |-> s, l |-> l]
PyNone == Val("none", 0, "", <<>>)
PyInt(n) == Val("int", n, "", <<>>)
PyBool(b) == Val("bool", IF b THEN 1 ELSE 0, "", <<>>)
PyFloat(n) == Val("float", n, "", <<>>)
PyStr(s) == Val("str", 0, s, <<>>)
PyBytes(s) == Val("bytes", 0, s, <<>>)
PyList(l) == Val("list", 0, "", l)
PyPair(k, v) == Val("pair", 0, "", <<k, v>>)
PyDict(entries) == Val("dict", 0, "", entries)
PyEnum(cls, n) == Val("enum", n, cls, <<>>)
PyStruct(cls, fields) == Val("struct", 0, cls, fields)
PyError(name) == Val("error", 0, name, <<>>)

\* msgpack objects that have no Python counterpart of their own
WireRaw(s) == Val("raw", 0, s, <<>>)
WireArray(l) == Val("array", 0, "", l)
WireMap(entries) == Val("map", 0, "", entries)

NumericTags == {"int", "bool", "enum"}

\* bool(value): Python truth of a value
Truthy(v) ==
    CASE v.t = "none" -> FALSE
      [] v.t \in NumericTags \cup {"float"} -> v.i # 0
      [] v.t \in {"str", "bytes", "raw"} -> v.s # ""
      [] v.t \in {"list", "dict", "array", "map"} -> Len(v.l) > 0
      [] OTHER -> TRUE

\* a == b for dict keys (hash and __eq__): int, bool and CEnum compare by
\* their integer; text and byte strings never compare equal
PyKeyEq(a, b) ==
    IF a.t \in NumericTags /\ b.t \in NumericTags
    THEN a.i = b.i
    ELSE a = b

\* position of key in a dict's entries, 0 when absent
DictFind(entries, key) ==
    LET hits == {j \in 1..Len(entries) : PyKeyEq(entries[j].l[1], key)}
    IN  IF hits = {} THEN 0 ELSE CHOOSE j \in hits : \A k \in hits : j <= k

\* d.get(key)
DictGet(d, key) ==
    LET j == DictFind(d.l, key)
    IN  IF j = 0 THEN PyNone ELSE d.l[j].l[2]

\* d[key] = val on the entries of d: a new key is appended, an existing
\* key keeps its place (and its first key object) and takes the new value
DictSet(entries, key, val) ==
    LET j == DictFind(entries, key)
    IN  IF j = 0
        THEN Append(entries, PyPair(key, val))
        ELSE [entries EXCEPT ![j] = PyPair(entries[j].l[1], val)]

(***************************************************************************)
(* Class types as they appear in _fields_: a class, or a tuple of class    *)
(* types such as (list, Element) or (dict, (Uint32, ChannelInfo)).         *)
(***************************************************************************)
Cls(n) == [k |-> "cls", n |-> n, l |-> <<>>]
Tup(l) == [k |-> "tup", n |-> "", l |-> l]
NoType == [k |-> "none", n |-> "", l |-> <<>>]
Field(name, type) == [name |-> name, type |-> type]
\* serialize.Array(class_type, *args): an instance, not a class or a tuple
Arr(elem, dims) == [k |-> "arr", n |-> elem, l |-> dims]
\* the length of each dimension of the arrays of the model
ArrayLen == 2

IntegerClasses ==
    {"Integer", "Int8", "Int16", "Int32", "Int64",
     "Uint8", "Uint16", "Uint32", "Uint64"}
FloatClasses == {"Float", "Double"}
EnumClasses == {"PlaySpeed", "StreamState"}
StructClasses ==
    {"PlayModeProperty", "PlayProperty", "Element", "RegisterAccess8Property",
     "TemperatureInfo", "TemperatureProperty", "RecordProperty", "StateTable",
     "StreamStateProperty", "StateGrid", "Board"}

\* _fields_ of the structure kinds of the model
Fields(cls) ==
    CASE cls = "PlayModeProperty" ->
            << Field("repeat", Cls("Bool")) >>
      [] cls = "PlayProperty" ->
            << Field("target_path", Cls("String")),
               Field("start_offset", Cls("Uint32")),
               Field("count", Cls("Uint32")),
               Field("speed", Cls("PlaySpeed")),
               Field("mode", Cls("PlayModeProperty")) >>
      [] cls = "Element" ->
            << Field("address", Cls("Uint64")),
               Field("data", Cls("Uint8")) >>
      [] cls = "RegisterAccess8Property" ->
            << Field("id", Cls("Uint32")),
               Field("element", Tup(<<Cls("list"), Cls("Element")>>)) >>
      [] cls = "TemperatureInfo" ->
            << Field("temperature", Cls("Float")),
               Field("description", Cls("String")) >>
      [] cls = "TemperatureProperty" ->
            << Field("temperatures",
                     Tup(<<Cls("dict"),
                           Tup(<<Cls("Uint32"), Cls("TemperatureInfo")>>)>>)) >>
      [] cls = "RecordProperty" ->
            << Field("enabled", Cls("Bool")),
               Field("path", Cls("String")),
               Field("count", Cls("Uint32")),
               Field("formats",
                     Tup(<<Cls("dict"),
                           Tup(<<Cls("Uint32"), Cls("String")>>)>>)),
               Field("buffer_num", Cls("Uint32")),
               Field("name_rules",
                     Tup(<<Cls("dict"),
                           Tup(<<Cls("String"), Cls("String")>>)>>)) >>
      [] cls = "StreamStateProperty" ->
            << Field("state", Cls("StreamState")) >>
      [] cls = "StateTable" ->
            \* a user-defined kind: enums inside a list, inside a dict as
            \* values and as keys, and inside a nested structure
            << Field("states", Tup(<<Cls("list"), Cls("StreamState")>>)),
               Field("by_channel",
                     Tup(<<Cls("dict"),
                           Tup(<<Cls("Uint32"), Cls("StreamState")>>)>>)),
               Field("by_state",
                     Tup(<<Cls("dict"),
                           Tup(<<Cls("StreamState"), Cls("Uint32")>>)>>)),
               Field("stream", Cls("StreamStateProperty")) >>
      [] cls = "Board" ->
            \* a user-defined kind with one field of each container: static
            \* array, list, dict and nested structure
            << Field("cells", Arr("Uint8", <<ArrayLen>>)),
               Field("items", Tup(<<Cls("list"), Cls("Uint8")>>)),
               Field("table",
                     Tup(<<Cls("dict"), Tup(<<Cls("Uint8"), Cls("Uint8")>>)>>)),
               Field("mode", Cls("PlayModeProperty")) >>
      [] cls = "StateGrid" ->
            \* a user-defined kind: enums inside a static array
            << Field("cells", Arr("StreamState", <<ArrayLen>>)) >>
      [] OTHER -> << >>

\* the structure kinds an instance is made of
Kinds ==
    {"PlayProperty", "RegisterAccess8Property", "TemperatureProperty",
     "RecordProperty", "StateTable", "StateGrid"}

\* isinstance(class_type, tuple): the head and the rest of a class type
CurrentClass(ct) == IF ct.k = "tup" THEN ct.l[1] ELSE ct
RestClass(ct) == IF ct.k = "tup" THEN Tup(Tail(ct.l)) ELSE NoType
\* a tuple holding one tuple is replaced by that tuple (the dict branch)
PairClass(ct) == IF ct.k = "tup" /\ Len(ct.l) = 1 THEN ct.l[1] ELSE ct
IsClass(ct, names) == ct.k = "cls" /\ ct.n \in names

(***************************************************************************)
(* Structure.__init__: every field takes the value of class_type().        *)
(***************************************************************************)
RECURSIVE Construct(_), ArrayOf(_, _)
\* Array.__init__: nested lists of copies of the element, one level per
\* dimension; no dimension gives the empty list
ArrayOf(value, dims) ==
    IF dims = << >> THEN value
    ELSE PyList([j \in 1..Head(dims) |-> ArrayOf(value, Tail(dims))])

\* class_type(): Array.__call__ copies the array, whose value the field takes
Default(ct) ==
    IF ct.k = "arr"
    THEN IF ct.l = << >> THEN PyList(<< >>) ELSE ArrayOf(Construct(ct.n), ct.l)
    ELSE Construct(CurrentClass(ct).n)

Construct(cls) ==
    CASE cls \in IntegerClasses -> PyInt(0)
      [] cls \in FloatClasses -> PyFloat(0)
      [] cls = "Bool" -> PyBool(FALSE)
      [] cls = "String" -> PyBytes("")
      [] cls = "list" -> PyList(<< >>)
      [] cls = "dict" -> PyDict(<< >>)
      [] cls \in EnumClasses -> PyEnum(cls, 0)
      [] cls \in StructClasses ->
            PyStruct(cls, [j \in 1..Len(Fields(cls)) |->
                            Default(Fields(cls)[j].type)])
      [] OTHER -> PyError("TypeError")

(***************************************************************************)
(* Structure._encode and Structure.to_dict.                                *)
(***************************************************************************)
RECURSIVE Encode(_, _), EncodeDict(_, _, _, _), ToDict(_), ToDictFrom(_, _, _)

\* an encoder that leaves the elements of lists and dicts as they are
EncodeFlat(value, ct) ==
    CASE value.t = "struct" -> ToDict(value)
      [] value.t = "enum" -> PyInt(value.i)
      [] OTHER -> value

\* Structure._encode(value, class_type): the value it returns
Encode(value, ct) ==
    IF ct.k = "tup" /\ ct.l = << >> THEN PyError("IndexError")
    ELSE
    LET cur == CurrentClass(ct)
        rest == RestClass(ct)
        v1 == IF IsClass(cur, {"list"})
              THEN IF value.t # "list" THEN PyError("TypeError")
                   ELSE PyList([j \in 1..Len(value.l) |->
                                   Encode(value.l[j], rest)])
              ELSE IF IsClass(cur, {"dict"})
              THEN IF value.t # "dict" THEN PyError("AttributeError")
                   ELSE PyDict(EncodeDict(value.l, PairClass(rest), 1, << >>))
              ELSE value
    IN  CASE v1.t = "struct" -> ToDict(v1)
          [] v1.t = "enum" -> PyInt(v1.i)
          [] OTHER -> v1

\* the loop "for key, val in value.items(): new_dict[key'] = val'"
EncodeDict(entries, kv, j, acc) ==
    IF j > Len(entries) THEN acc
    ELSE EncodeDict(entries, kv, j + 1,
                    DictSet(acc, Encode(entries[j].l[1], kv.l[1]),
                                 Encode(entries[j].l[2], kv.l[2])))

\* Structure.to_dict(): field name (as text) -> encoded field value
ToDict(s) == PyDict(ToDictFrom(s, 1, << >>))

ToDictFrom(s, j, acc) ==
    IF j > Len(Fields(s.s)) THEN acc
    ELSE ToDictFrom(s, j + 1,
                    DictSet(acc, PyStr(Fields(s.s)[j].name),
                                 Encode(s.l[j], Fields(s.s)[j].type)))

(***************************************************************************)
(* What _encode leaves behind in the object it was given: the list branch  *)
(* assigns value[index] = encoded element on the caller's list.            *)
(***************************************************************************)
RECURSIVE EncodeEffect(_, _), StructEffect(_)

EncodeEffect(value, ct) ==
    LET cur == CurrentClass(ct)
        rest == RestClass(ct)
    IN  IF IsClass(cur, {"list"}) /\ value.t = "list"
        THEN PyList([j \in 1..Len(value.l) |-> Encode(value.l[j], rest)])
        ELSE IF IsClass(cur, {"dict"}) /\ value.t = "dict"
        THEN PyDict([j \in 1..Len(value.l) |->
                        PyPair(value.l[j].l[1],
                               EncodeEffect(value.l[j].l[2],
                                            PairClass(rest).l[2]))])
        ELSE IF value.t = "struct" THEN StructEffect(value)
        ELSE value

\* the instance after its own to_dict()
StructEffect(s) ==
    PyStruct(s.s, [j \in 1..Len(s.l) |->
                      EncodeEffect(s.l[j], Fields(s.s)[j].type)])

(***************************************************************************)
(* msgpack, as serialize.py configures it: packb(use_bin_type=False)       *)
(* writes text and byte strings as the same raw type; unpack(raw=True)     *)
(* reads every raw as a byte string and builds each map by assignment.     *)
(***************************************************************************)
RECURSIVE Raises(_)
Raises(v) ==
    \/ v.t = "error"
    \/ \E j \in 1..Len(v.l) : Raises(v.l[j])

Outcome(v) == IF Raises(v) THEN PyError("raised") ELSE v

RECURSIVE Pack(_)
Pack(v) ==
    CASE v.t \in {"int", "bool", "float", "none"} -> v
      [] v.t \in {"str", "bytes"} -> WireRaw(v.s)
      [] v.t = "list" -> WireArray([j \in 1..Len(v.l) |-> Pack(v.l[j])])
      [] v.t = "dict" ->
            WireMap([j \in 1..Len(v.l) |->
                        PyPair(Pack(v.l[j].l[1]), Pack(v.l[j].l[2]))])
      [] OTHER -> PyError("TypeError")

RECURSIVE Unpack(_), UnpackMap(_, _, _)
Unpack(w) ==
    CASE w.t = "raw" -> PyBytes(w.s)
      [] w.t = "array" -> PyList([j \in 1..Len(w.l) |-> Unpack(w.l[j])])
      [] w.t = "map" -> PyDict(UnpackMap(w.l, 1, << >>))
      [] OTHER -> w

UnpackMap(entries, j, acc) ==
    IF j > Len(entries) THEN acc
    ELSE UnpackMap(entries, j + 1,
                   DictSet(acc, Unpack(entries[j].l[1]),
                                Unpack(entries[j].l[2])))

\* Serializable.to_bytes() of a structure: Encoder.push(self.to_dict())
ToBytes(s) == Outcome(Pack(ToDict(s)))

(***************************************************************************)
(* Structure._decode and Structure.from_dict.                              *)
(***************************************************************************)
RECURSIVE Decode(_, _), DecodeDict(_, _, _, _), FromDict(_, _), DecodeField(_, _)

\* Structure._decode(value, class_type)
Decode(value, ct) ==
    IF ct.k = "tup" /\ ct.l = << >> THEN PyError("IndexError")
    ELSE
    LET cur == CurrentClass(ct)
        rest == RestClass(ct)
    IN  IF IsClass(cur, {"list"})
        THEN IF value.t = "list"
             THEN PyList([j \in 1..Len(value.l) |-> Decode(value.l[j], rest)])
             ELSE IF value.t = "dict"
             \* enumerate(value) walks the keys and value[index] = ... assigns
             \* under the int index: a new key changes the size of the dict,
             \* which its iteration refuses
             THEN IF \E i \in 0..(Len(value.l) - 1) :
                        DictFind(value.l, PyInt(i)) = 0
                  THEN PyError("RuntimeError")
                  ELSE PyDict([j \in 1..Len(value.l) |->
                          PyPair(value.l[j].l[1],
                                 Decode(value.l[value.l[j].l[1].i + 1].l[1],
                                        rest))])
             ELSE PyError("TypeError")
        ELSE IF IsClass(cur, {"dict"})
        THEN IF value.t # "dict" THEN PyError("AttributeError")
             ELSE PyDict(DecodeDict(value.l, PairClass(rest), 1, << >>))
        ELSE IF IsClass(cur, StructClasses)
        THEN FromDict(Construct(cur.n), value)
        ELSE value

DecodeDict(entries, kv, j, acc) ==
    IF j > Len(entries) THEN acc
    ELSE DecodeDict(entries, kv, j + 1,
                    DictSet(acc, Decode(entries[j].l[1], kv.l[1]),
                                 Decode(entries[j].l[2], kv.l[2])))

\* a decoder that looks the field up under its text name only
DecodeFieldTextOnly(d, f) ==
    LET v0 == DictGet(d, PyStr(f.name))
    IN  IF Truthy(v0) THEN Decode(v0, f.type) ELSE v0

\* one turn of the loop of from_dict: the value the field is set to
DecodeField(d, f) ==
    LET v0 == DictGet(d, PyStr(f.name))
        \* "if not value": try the field name as a byte string
        v1 == IF ~Truthy(v0) THEN DictGet(d, PyBytes(f.name)) ELSE v0
    IN  IF Truthy(v1) THEN Decode(v1, f.type) ELSE v1

\* instance.from_dict(input_dict): the instance afterwards
FromDict(s, d) ==
    IF d.t # "dict" THEN PyError("AttributeError")
    ELSE PyStruct(s.s, [j \in 1..Len(Fields(s.s)) |->
                           DecodeField(d, Fields(s.s)[j])])

\* Serializable.from_bytes(encoded_bytes) of class cls
FromBytes(cls, w) == Outcome(FromDict(Construct(cls), Unpack(w)))

\* Serializable.__eq__: equal when both encode to the same bytes
SerEq(a, b) ==
    /\ a.t = "struct"
    /\ b.t = "struct"
    /\ ToBytes(a) = ToBytes(b)

(***************************************************************************)
(* Values of the declared types that a caller assigns to fields.           *)
(***************************************************************************)
SeqsUpTo(S, n) == UNION {[1..m -> S] : m \in 0..n}

BoolValues == {PyBool(FALSE), PyBool(TRUE)}
FloatValues == {PyFloat(0), PyFloat(1)}
\* a String accepts byte strings and text: b"", "a" and b"a"
StringValues == {PyBytes(""), PyStr("a"), PyBytes("a")}
\* strings held by containers, and strings used as dict keys
StringElems == {PyBytes(""), PyStr("a")}
StringKeys == {PyStr("a"), PyBytes("a")}

RECURSIVE ElemsOf(_)
\* values of class type ct held by a list or a dict
ElemsOf(ct) ==
    LET cur == CurrentClass(ct)
    IN  CASE IsClass(cur, IntegerClasses) -> {PyInt(n) : n \in 0..MaxInt}
          [] IsClass(cur, FloatClasses) -> FloatValues
          [] IsClass(cur, {"Bool"}) -> BoolValues
          [] IsClass(cur, {"String"}) -> StringElems
          [] IsClass(cur, EnumClasses) -> {PyEnum(cur.n, n) : n \in 0..MaxInt}
          [] IsClass(cur, StructClasses) ->
                LET fs == Fields(cur.n)
                    all == UNION {ElemsOf(fs[j].type) : j \in 1..Len(fs)}
                IN  {PyStruct(cur.n, f) :
                        f \in {g \in [1..Len(fs) -> all] :
                                 \A j \in 1..Len(fs) : g[j] \in ElemsOf(fs[j].type)}}
          [] OTHER -> {}

KeysOf(ct) ==
    IF IsClass(ct, {"String"}) THEN StringKeys ELSE ElemsOf(ct)

\* the entries of a dict have pairwise different keys
DistinctKeys(entries) ==
    \A a, b \in 1..Len(entries) :
        a # b => ~PyKeyEq(entries[a].l[1], entries[b].l[1])

\* values of class type ct assigned to a field
ValuesOf(ct) ==
    LET cur == CurrentClass(ct)
        rest == RestClass(ct)
    IN  CASE IsClass(cur, {"String"}) -> StringValues
          [] IsClass(cur, EnumClasses) ->
                {PyEnum(cur.n, n) : n \in 0..(MaxInt + 1)}
          [] IsClass(cur, {"list"}) ->
                {PyList(q) : q \in SeqsUpTo(ElemsOf(rest), MaxLen)}
          [] IsClass(cur, {"dict"}) ->
                LET kv == PairClass(rest)
                    pairs == {PyPair(k, v) : k \in KeysOf(kv.l[1]),
                                             v \in ElemsOf(kv.l[2])}
                IN  {PyDict(q) : q \in {r \in SeqsUpTo(pairs, MaxLen) :
                                           DistinctKeys(r)}}
          [] cur.k = "arr" ->
                {PyList(q) : q \in [1..Head(cur.l) -> ElemsOf(Cls(cur.n))]}
          [] OTHER -> ElemsOf(ct)

(***************************************************************************)
(* Wire maps handed to from_dict: the unpacked bytes of an instance with   *)
(* the field-name keys in one form (byte strings as unpack() gives them,   *)
(* or text), and possibly with one field left out.                         *)
(***************************************************************************)
KeyForms == {"bytes", "text"}

KeyInForm(key, form) == IF form = "text" THEN PyStr(key.s) ELSE PyBytes(key.s)

RECURSIVE Rekey(_, _, _)
Rekey(value, ct, form) ==
    LET cur == CurrentClass(ct)
        rest == RestClass(ct)
    IN  IF IsClass(cur, {"list"}) /\ value.t = "list"
        THEN PyList([j \in 1..Len(value.l) |-> Rekey(value.l[j], rest, form)])
        ELSE IF IsClass(cur, {"dict"}) /\ value.t = "dict"
        THEN PyDict([j \in 1..Len(value.l) |->
                        PyPair(value.l[j].l[1],
                               Rekey(value.l[j].l[2], PairClass(rest).l[2], form))])
        ELSE IF IsClass(cur, StructClasses) /\ value.t = "dict"
        THEN PyDict([j \in 1..Len(value.l) |->
                        PyPair(KeyInForm(value.l[j].l[1], form),
                               Rekey(value.l[j].l[2], Fields(cur.n)[j].type, form))])
        ELSE value

DropEntry(d, j) ==
    IF j = 0 THEN d
    ELSE PyDict(SubSeq(d.l, 1, j - 1) \o SubSeq(d.l, j + 1, Len(d.l)))

(***************************************************************************)
(* The components do not share state.  Each specification runs one of      *)
(* them; the others stay at rest.                                          *)
(***************************************************************************)
NoBundles == [none |-> TRUE, l |-> << >>]
NoEvents == [address |-> 0, count |-> 0, cursor |-> 0]
NoSlice ==
    [address |-> 0, timestamp |-> 0, count |-> 0, data_size |-> 0,
     events |-> NoEvents]
NoArg ==
    [kind |-> "none", num |-> 0, start |-> << >>, stop |-> << >>,
     step |-> << >>]
NoResult == [kind |-> "none", items |-> << >>]
NoKey == [t |-> "NoneType", s |-> << >>]
NoShape == [wellFormed |-> FALSE, base |-> << >>, bracket |-> FALSE,
            attrs |-> << >>]
NoChannel == [t |-> "NoneType", neg |-> FALSE, digits |-> << >>]
NoParam == [made |-> FALSE, key |-> << >>, append_dict |-> << >>]

SerAtRest ==
    /\ kind = ""
    /\ obj = PyNone
    /\ orig = PyNone
    /\ wire = PyNone
    /\ tree = PyNone
    /\ inDict = PyNone
    /\ dec = PyNone
    /\ serOp = "rest"
    /\ nSet = 0

TcAtRest ==
    /\ buf = [len |-> 0, n |-> 0, ecs |-> << >>]
    /\ tcPc = "rest"
    /\ tcCount = 0
    /\ tcBundles = << >>
    /\ tcOffset = 0
    /\ tcSlice = NoSlice
    /\ tcReads = {}
    /\ dataCount = 0
    /\ dataBundles = NoBundles
    /\ dataBefore = [count |-> 0, bundles |-> NoBundles]

EvAtRest ==
    /\ events = NoEvents
    /\ evOp = "rest"
    /\ evArg = NoArg
    /\ evResult = NoResult
    /\ evDerefs = {}
    /\ evSeen = << >>
    /\ evYielded = << >>

\* a Python int n written as n = q * 2^32 + r with r a signed 32-bit int
WideInt(q, r) == [q |-> q, r |-> r]
NoOperand == [t |-> "none", cls |-> "", q |-> 0, r |-> 0]
NoOutcome == [t |-> "none", b |-> FALSE, i |-> 0, s |-> ""]

EnumAtRest ==
    /\ enumCls = ""
    /\ enumN = WideInt(0, 0)
    /\ enumVal = 0
    /\ enumOp = "rest"
    /\ enumOther = NoOperand
    /\ enumResult = NoOutcome

InstAtRest ==
    /\ heap = << >>
    /\ insts = << >>
    /\ instOp = "rest"
    /\ instActor = 0
    /\ instOps = 0

\* a Python int n >= 0 in two limbs: n = hi * LimbBase + lo
Big(hi, lo) == [hi |-> hi, lo |-> lo]

SizeAtRest ==
    /\ sizeCount = Big(0, 0)
    /\ sizeRemain = Big(0, 0)
    /\ sizeData = Big(0, 0)
    /\ sizeOp = "rest"

CloseAtRest ==
    /\ streams = << >>
    /\ closePc = "rest"
    /\ closeStream = 0
    /\ closeSaved = 0
    /\ closeRaised = "none"
    /\ lastClose = << >>
    /\ closedOnce = << >>
    /\ closeCalls = 0

LoadAtRest ==
    /\ loadPc = << >>
    /\ lockHolder = 0
    /\ coreLoaded = FALSE
    /\ senscordDll = "None"
    /\ senscordPyDll = "None"
    /\ loadPlatform = ""
    /\ loadRaised = << >>
    /\ cdllLoads = 0
    /\ loadCalls = 0

LaterAtRest ==
    /\ InstAtRest
    /\ SizeAtRest
    /\ CloseAtRest
    /\ LoadAtRest

KeyAtRest ==
    /\ keyArg = NoKey
    /\ keyShape = NoShape
    /\ channelId = NoChannel
    /\ keyParam = NoParam
    /\ keyResult = NoKey
    /\ keyOp = "rest"
    /\ keyCalls = 0
    /\ keyPast = << >>

(***************************************************************************)
(* The serializer as a state machine: an instance is constructed, fields   *)
(* are assigned, it is encoded, and the bytes are decoded again.           *)
(***************************************************************************)
SerInit ==
    /\ kind \in Kinds
    /\ obj = Construct(kind)
    /\ orig = PyNone
    /\ wire = PyNone
    /\ tree = PyNone
    /\ inDict = PyNone
    /\ dec = PyNone
    /\ serOp = "init"
    /\ nSet = 0
    /\ TcAtRest
    /\ EvAtRest
    /\ KeyAtRest
    /\ EnumAtRest
    /\ LaterAtRest

SerFrame == UNCHANGED <<tcVars, evVars, keyVars, enumVars, laterVars>>

\* instance.<field j> = x; the caller fills the fields in declared order,
\* so field j is assigned while it and the fields after it hold defaults
SetField ==
    /\ serOp \in {"init", "set"}
    /\ nSet < MaxSets
    /\ \E j \in 1..Len(Fields(kind)) :
         /\ \A i \in j..Len(Fields(kind)) : obj.l[i] = Construct(kind).l[i]
         /\ \E x \in ValuesOf(Fields(kind)[j].type) :
               obj' = PyStruct(kind, [obj.l EXCEPT ![j] = x])
    /\ nSet' = nSet + 1
    /\ serOp' = "set"
    /\ UNCHANGED <<kind, orig, wire, tree, inDict, dec>>
    /\ SerFrame

\* isinstance(value, ...) of the constructors of the scalar classes
Matches(v, cls) ==
    CASE cls \in IntegerClasses -> v.t \in {"int", "bool"}
      [] cls \in FloatClasses -> v.t = "float"
      [] cls = "Bool" -> v.t = "bool"
      [] cls = "String" -> v.t \in {"bytes", "str"}
      [] OTHER -> FALSE

ScalarClasses == IntegerClasses \cup FloatClasses \cup {"Bool", "String"}
ScalarValues == {PyInt(1), PyFloat(1), PyBool(TRUE), PyStr("a")}

\* instance.<field j> = x, for a scalar field and a scalar x of another kind
\* than the field declares: an attribute takes any value
SetFieldOther ==
    /\ serOp \in {"init", "set"}
    /\ \E j \in 1..Len(Fields(kind)) :
         /\ IsClass(Fields(kind)[j].type, ScalarClasses)
         /\ \E x \in ScalarValues :
               /\ ~Matches(x, Fields(kind)[j].type.n)
               /\ obj' = PyStruct(kind, [obj.l EXCEPT ![j] = x])
    /\ serOp' = "set_other"
    /\ UNCHANGED <<kind, orig, wire, tree, inDict, dec, nSet>>
    /\ SerFrame

\* wire = instance.to_bytes()
DoToBytes ==
    /\ serOp \in {"init", "set", "set_other"}
    /\ wire' = ToBytes(obj)
    /\ orig' = obj
    /\ obj' = StructEffect(obj)
    /\ serOp' = IF serOp = "set_other" THEN "to_bytes_other" ELSE "to_bytes"
    /\ UNCHANGED <<kind, tree, inDict, dec, nSet>>
    /\ SerFrame

\* tree = instance.to_dict()
DoToDict ==
    /\ serOp \in {"init", "set", "set_other"}
    /\ tree' = ToDict(obj)
    /\ orig' = obj
    /\ obj' = StructEffect(obj)
    /\ serOp' = IF serOp = "set_other" THEN "to_dict_other" ELSE "to_dict"
    /\ UNCHANGED <<kind, wire, inDict, dec, nSet>>
    /\ SerFrame

\* dec = Kind.from_bytes(wire)
DoFromBytes ==
    /\ serOp = "to_bytes"
    /\ wire.t = "map"
    /\ dec' = FromBytes(kind, wire)
    /\ serOp' = "from_bytes"
    /\ UNCHANGED <<kind, obj, orig, wire, tree, inDict, nSet>>
    /\ SerFrame

\* dec = Kind(); dec.from_dict(map)
DoFromDict ==
    /\ serOp = "to_bytes"
    /\ wire.t = "map"
    /\ \E form \in KeyForms :
         \E drop \in 0..Len(Fields(kind)) :
            inDict' = DropEntry(Rekey(Unpack(wire), Cls(kind), form), drop)
    /\ dec' = Outcome(FromDict(Construct(kind), inDict'))
    /\ serOp' = "from_dict"
    /\ UNCHANGED <<kind, obj, orig, wire, tree, nSet>>
    /\ SerFrame

\* wire values of every shape
OtherShapes ==
    {PyInt(1), PyBool(TRUE), PyBytes("a"), PyList(<<PyInt(1)>>),
     PyDict(<<PyPair(PyInt(0), PyInt(1))>>),
     PyDict(<<PyPair(PyBytes("a"), PyInt(1))>>)}

\* dec = Kind(); dec.from_dict(map), for a map that another writer made: one
\* of its fields holds a value of any shape
DoFromDictOther ==
    /\ serOp = "to_bytes"
    /\ wire.t = "map"
    /\ \E j \in 1..Len(Fields(kind)) :
         \E x \in OtherShapes :
            LET d == Unpack(wire)
            IN  inDict' = PyDict([d.l EXCEPT ![j] = PyPair(d.l[j].l[1], x)])
    /\ dec' = Outcome(FromDict(Construct(kind), inDict'))
    /\ serOp' = "from_dict_other"
    /\ UNCHANGED <<kind, obj, orig, wire, tree, nSet>>
    /\ SerFrame

\* dec = Kind(); dec.from_dict(map), for a map that holds one field under
\* both forms of its name: the text key with the value of the instance, the
\* byte-string key with the encoding of any value of the field's type
DoFromDictBoth ==
    /\ serOp = "to_bytes"
    /\ wire.t = "map"
    /\ \E j \in 1..Len(Fields(kind)) :
         \E x \in ValuesOf(Fields(kind)[j].type) :
            LET d == Rekey(Unpack(wire), Cls(kind), "text")
                y == Unpack(Pack(Encode(x, Fields(kind)[j].type)))
            IN  /\ ~Raises(y)
                /\ inDict' = PyDict(Append(d.l,
                                 PyPair(PyBytes(Fields(kind)[j].name), y)))
    /\ dec' = Outcome(FromDict(Construct(kind), inDict'))
    /\ serOp' = "from_dict_both"
    /\ UNCHANGED <<kind, obj, orig, wire, tree, nSet>>
    /\ SerFrame

SerNext ==
    \/ SetField
    \/ SetFieldOther
    \/ DoToBytes
    \/ DoToDict
    \/ DoFromBytes
    \/ DoFromDict
    \/ DoFromDictOther
    \/ DoFromDictBoth

SpecSer == SerInit /\ [][SerNext]_vars

(***************************************************************************)
(* Claims about the serializer.                                            *)
(***************************************************************************)
RECURSIVE NoDuplicateMapKeys(_)
\* no map of the wire tree holds the same key twice
NoDuplicateMapKeys(w) ==
    /\ w.t = "map" =>
          \A a, b \in 1..Len(w.l) : a # b => w.l[a].l[1] # w.l[b].l[1]
    /\ \A j \in 1..Len(w.l) : NoDuplicateMapKeys(w.l[j])

C6_PresentFalsyKept ==
    serOp = "from_dict" =>
        \A j \in 1..Len(Fields(kind)) :
            \A key \in {PyStr(Fields(kind)[j].name), PyBytes(Fields(kind)[j].name)} :
                (DictFind(inDict.l, key) # 0 /\ ~Truthy(DictGet(inDict, key)))
                    => dec.l[j] = DictGet(inDict, key)

\* C7: to_bytes() and to_dict() leave every field of the instance as it was.
C7_EncodeLeavesValue ==
    serOp \in {"to_bytes", "to_dict"} => obj = orig

(***************************************************************************)
(* The temporal-contrast raw data.  A buffer is `len` bytes of memory;     *)
(* what it holds is a stream header declaring n bundles, followed by       *)
(* bundles laid out back to back, bundle k holding ecs[k] events.  Bytes   *)
(* that no laid-out field covers are zero.  len is independent of the      *)
(* content, so a buffer may end anywhere inside what it claims to hold.    *)
(***************************************************************************)
TEMPORAL_CONTRAST_DATA_HEADER == 16
TEMPORAL_CONTRAST_EVENTS_TIMESLICE_HEADER == 24
\* ctypes.sizeof(TemporalContrastEvent): x, y (uint16), p (int8), reserved
EventSize == 6

MaxBufLen ==
    TEMPORAL_CONTRAST_DATA_HEADER
        + MaxBundles * (TEMPORAL_CONTRAST_EVENTS_TIMESLICE_HEADER
                            + EventSize * MaxEvents)

Buffers ==
    [len : 0..MaxBufLen,
     n : 0..(MaxBundles + 1),
     ecs : [1..MaxBundles -> 0..MaxEvents]]

\* event count and timestamp stored in the header of the k-th bundle
EcOf(b, k) == IF k \in 1..Len(b.ecs) THEN b.ecs[k] ELSE 0
TsOf(b, k) == IF k \in 1..Len(b.ecs) THEN 100 * k ELSE 0

RECURSIVE OffsetOf(_, _)
\* byte offset of the k-th bundle (k = 1, 2, ...)
OffsetOf(b, k) ==
    IF k <= 1 THEN TEMPORAL_CONTRAST_DATA_HEADER
    ELSE OffsetOf(b, k - 1) + TEMPORAL_CONTRAST_EVENTS_TIMESLICE_HEADER
                            + EventSize * EcOf(b, k - 1)

\* the event stored as record i (0-based) of the k-th bundle
EventOf(k, i) == [x |-> i + 1, y |-> k, p |-> IF i % 2 = 0 THEN 1 ELSE -1]
ZeroEvent == [x |-> 0, y |-> 0, p |-> 0]

\* ctypes.cast(address + off, POINTER(c_uint32)).contents.value
ReadU32(b, off) ==
    IF off = 0 THEN b.n
    ELSE LET at == {k \in 1..Len(b.ecs) : off = OffsetOf(b, k) + 8}
         IN  IF at = {} THEN 0 ELSE EcOf(b, CHOOSE k \in at : TRUE)

\* ctypes.cast(address + off, POINTER(c_uint64)).contents.value
ReadU64(b, off) ==
    LET at == {k \in 1..Len(b.ecs) : off = OffsetOf(b, k)}
    IN  IF at = {} THEN 0 ELSE TsOf(b, CHOOSE k \in at : TRUE)

\* the TemporalContrastEvent at byte offset off
ReadEvent(b, off) ==
    LET at == {ki \in (1..Len(b.ecs)) \X (0..MaxEvents) :
                 /\ ki[2] < EcOf(b, ki[1])
                 /\ off = OffsetOf(b, ki[1])
                            + TEMPORAL_CONTRAST_EVENTS_TIMESLICE_HEADER
                            + EventSize * ki[2]}
    IN  IF at = {} THEN ZeroEvent
        ELSE LET ki == CHOOSE ki \in at : TRUE IN EventOf(ki[1], ki[2])

\* the bytes a read of `width` bytes at `off` touches
BytesAt(off, width) == off..(off + width - 1)

(***************************************************************************)
(* TemporalContrastData.from_bytes(address, size), statement by statement. *)
(***************************************************************************)
\* "if size < TEMPORAL_CONTRAST_DATA_HEADER" (from_bytes)
HeaderTooShort(size) == size < TEMPORAL_CONTRAST_DATA_HEADER

\* a header check that only rejects a negative size
SliceHeaderCheckNegativeOnly(size) == size < 0

\* "if size < TEMPORAL_CONTRAST_EVENTS_TIMESLICE_HEADER" (timeslice)
SliceHeaderTooShort(size) == size < TEMPORAL_CONTRAST_EVENTS_TIMESLICE_HEADER

\* a bundle size that leaves the bundle header out
DataSizeWithoutHeader(count) == count * EventSize

\* self.count * ctypes.sizeof(TemporalContrastEvent) + header size
DataSize(count) ==
    count * EventSize + TEMPORAL_CONTRAST_EVENTS_TIMESLICE_HEADER

\* a body check that compares the size with the events alone
SliceBodyCheckEventsOnly(size, data_size) ==
    size < data_size - TEMPORAL_CONTRAST_EVENTS_TIMESLICE_HEADER

\* "if size < self.data_size"
SliceBodyTooShort(size, data_size) == size < data_size

\* TemporalContrastEventArray(address, count)
EventArray(address, count) ==
    [address |-> address, count |-> count, cursor |-> 0]

\* self.event[i]: the record i records after the view's address
EventAddress(ev, i) == ev.address + EventSize * i
EventItem(b, ev, i) == ReadEvent(b, EventAddress(ev, i))

\* "for _ in range(count)": another turn, or the statements after the loop
LoopPc(done, count) == IF done < count THEN "slice_call" ELSE "assign"

TcFrame == UNCHANGED <<serVars, evVars, keyVars, enumVars, laterVars>>

\* from_bytes, first statement: the size check of the stream header
TcHeaderCheck ==
    /\ tcPc = "call"
    /\ tcPc' = IF HeaderTooShort(buf.len) THEN "BufferError" ELSE "header_ok"
    /\ UNCHANGED <<buf, tcCount, tcBundles, tcOffset, tcSlice, tcReads,
                   dataCount, dataBundles, dataBefore>>
    /\ TcFrame

\* count = ...contents.value; bundles = []; offset = header size
TcReadCount ==
    /\ tcPc = "header_ok"
    /\ tcCount' = ReadU32(buf, 0)
    /\ tcReads' = tcReads \cup BytesAt(0, 4)
    /\ tcBundles' = << >>
    /\ tcOffset' = TEMPORAL_CONTRAST_DATA_HEADER
    /\ tcPc' = LoopPc(0, tcCount')
    /\ UNCHANGED <<buf, tcSlice, dataCount, dataBundles, dataBefore>>
    /\ TcFrame

\* TemporalContrastEventsTimeslice(address + offset, size - offset):
\* the size check of the bundle header
TcSliceHeaderCheck ==
    /\ tcPc = "slice_call"
    /\ tcPc' = IF SliceHeaderTooShort(buf.len - tcOffset)
               THEN "BufferError" ELSE "slice_header_ok"
    /\ UNCHANGED <<buf, tcCount, tcBundles, tcOffset, tcSlice, tcReads,
                   dataCount, dataBundles, dataBefore>>
    /\ TcFrame

\* self.timestamp, self.count and self.data_size of the timeslice
TcSliceReadHeader ==
    /\ tcPc = "slice_header_ok"
    /\ LET count == ReadU32(buf, tcOffset + 8)
       IN  tcSlice' = [address |-> tcOffset,
                       timestamp |-> ReadU64(buf, tcOffset),
                       count |-> count,
                       data_size |-> DataSize(count),
                       events |-> NoEvents]
    /\ tcReads' = tcReads \cup BytesAt(tcOffset, 8) \cup BytesAt(tcOffset + 8, 4)
    /\ tcPc' = "slice_body"
    /\ UNCHANGED <<buf, tcCount, tcBundles, tcOffset,
                   dataCount, dataBundles, dataBefore>>
    /\ TcFrame

\* the size check of the whole bundle
TcSliceBodyCheck ==
    /\ tcPc = "slice_body"
    /\ tcPc' = IF SliceBodyTooShort(buf.len - tcOffset, tcSlice.data_size)
               THEN "BufferError" ELSE "slice_ok"
    /\ UNCHANGED <<buf, tcCount, tcBundles, tcOffset, tcSlice, tcReads,
                   dataCount, dataBundles, dataBefore>>
    /\ TcFrame

\* a loop that appends each bundle to self.bundles as it goes
TcSliceEventsPublishing ==
    /\ tcPc = "slice_ok"
    /\ LET bundle ==
             [tcSlice EXCEPT !.events =
                 EventArray(tcSlice.address
                                + TEMPORAL_CONTRAST_EVENTS_TIMESLICE_HEADER,
                            tcSlice.count)]
       IN  /\ tcBundles' = Append(tcBundles, bundle)
           /\ tcOffset' = tcOffset + bundle.data_size
    /\ dataBundles' = [none |-> FALSE, l |-> tcBundles']
    /\ tcSlice' = NoSlice
    /\ tcPc' = LoopPc(Len(tcBundles'), tcCount)
    /\ UNCHANGED <<buf, tcCount, tcReads, dataCount, dataBefore>>
    /\ TcFrame

\* self.events = ...; bundles.append(bundle); offset += bundle.total_size()
TcSliceEvents ==
    /\ tcPc = "slice_ok"
    /\ LET bundle ==
             [tcSlice EXCEPT !.events =
                 EventArray(tcSlice.address
                                + TEMPORAL_CONTRAST_EVENTS_TIMESLICE_HEADER,
                            tcSlice.count)]
       IN  /\ tcBundles' = Append(tcBundles, bundle)
           /\ tcOffset' = tcOffset + bundle.data_size
    /\ tcSlice' = NoSlice
    /\ tcPc' = LoopPc(Len(tcBundles'), tcCount)
    /\ UNCHANGED <<buf, tcCount, tcReads, dataCount, dataBundles, dataBefore>>
    /\ TcFrame

\* self.count = count; self.bundles = tuple(bundles)
TcAssign ==
    /\ tcPc = "assign"
    /\ dataCount' = tcCount
    /\ dataBundles' = [none |-> FALSE, l |-> tcBundles]
    /\ tcPc' = "done"
    /\ UNCHANGED <<buf, tcCount, tcBundles, tcOffset, tcSlice, tcReads,
                   dataBefore>>
    /\ TcFrame

\* the buffer of the worked example: two bundles, of two and of no events
ExampleBuffer ==
    [len |-> OffsetOf([ecs |-> <<2, 0>>], 3),
     n |-> 2,
     ecs |-> [k \in 1..MaxBundles |-> IF k = 1 THEN 2 ELSE 0]]

\* the object that parsed the example is handed another buffer
TcCallAgain ==
    /\ tcPc = "done"
    /\ buf = ExampleBuffer
    /\ dataBefore.bundles.none
    /\ buf' \in Buffers
    /\ dataBefore' = [count |-> dataCount, bundles |-> dataBundles]
    /\ tcPc' = "call"
    /\ tcCount' = 0
    /\ tcBundles' = << >>
    /\ tcOffset' = 0
    /\ tcSlice' = NoSlice
    /\ tcReads' = {}
    /\ UNCHANGED <<dataCount, dataBundles>>
    /\ TcFrame

\* a new TemporalContrastData() is handed a buffer
TcInit ==
    /\ buf \in Buffers
    /\ tcPc = "call"
    /\ tcCount = 0
    /\ tcBundles = << >>
    /\ tcOffset = 0
    /\ tcSlice = NoSlice
    /\ tcReads = {}
    /\ dataCount = 0
    /\ dataBundles = NoBundles
    /\ dataBefore = [count |-> 0, bundles |-> NoBundles]
    /\ SerAtRest
    /\ EvAtRest
    /\ KeyAtRest
    /\ EnumAtRest
    /\ LaterAtRest

TcNext ==
    \/ TcHeaderCheck
    \/ TcReadCount
    \/ TcSliceHeaderCheck
    \/ TcSliceReadHeader
    \/ TcSliceBodyCheck
    \/ TcSliceEvents
    \/ TcAssign
    \/ TcCallAgain

SpecTC == TcInit /\ [][TcNext]_vars

(***************************************************************************)
(* Claims about the event-stream parser.                                   *)
(***************************************************************************)
\* bytes the stream declares: the header and its n bundles
Needed(b) == OffsetOf(b, b.n + 1)

RECURSIVE SumTotalSize(_)
SumTotalSize(bs) ==
    IF bs = << >> THEN 0 ELSE Head(bs).data_size + SumTotalSize(Tail(bs))

BundleEnd(b) ==
    b.address + TEMPORAL_CONTRAST_EVENTS_TIMESLICE_HEADER + EventSize * b.count

\* C2: from_bytes reads the stream count only when the buffer holds the 16
\* header bytes, reads a bundle header only when 24 bytes remain at its
\* offset, creates a bundle's event view only when the whole bundle remains,
\* and never reads a byte at an offset >= the buffer length.
C2_ValidateBeforeRead ==
    /\ \A r \in tcReads : r < buf.len
    /\ tcReads # {} => buf.len >= TEMPORAL_CONTRAST_DATA_HEADER
    /\ tcPc \in {"slice_body", "slice_ok"} =>
          buf.len - tcSlice.address >= TEMPORAL_CONTRAST_EVENTS_TIMESLICE_HEADER
    /\ \A k \in 1..Len(tcBundles) : BundleEnd(tcBundles[k]) <= buf.len

\* the call has read two bundle headers and made the view of a bundle of two
C2_Witness ==
    /\ Len(tcBundles) = 2
    /\ tcBundles[1].events.count = 2
    /\ Cardinality(tcReads) = 28

\* C3: after a successful from_bytes, 16 plus the bundles' total_size() is
\* at most the buffer length, every bundle lies inside [16, len], the
\* bundles follow one another without gap or overlap, and the running
\* offset never exceeds the buffer length.
C3_BundlesInsideBuffer ==
    /\ tcOffset <= buf.len
    /\ tcPc = "done" =>
          LET bs == dataBundles.l
          IN  /\ TEMPORAL_CONTRAST_DATA_HEADER + SumTotalSize(bs) <= buf.len
              /\ \A k \in 1..Len(bs) :
                    /\ bs[k].address >= TEMPORAL_CONTRAST_DATA_HEADER
                    /\ BundleEnd(bs[k]) <= buf.len
                    /\ bs[k].address =
                          IF k = 1 THEN TEMPORAL_CONTRAST_DATA_HEADER
                          ELSE BundleEnd(bs[k - 1])

\* a successful parse of two bundles, the first with events, that fill the
\* buffer to its last byte
C3_Witness ==
    /\ tcPc = "done"
    /\ Len(dataBundles.l) = 2
    /\ dataBundles.l[1].count > 0
    /\ BundleEnd(dataBundles.l[2]) = buf.len

\* C4: from_bytes ends in BufferError exactly when the buffer is shorter
\* than the stream it declares, and then, as all through the call, the
\* object's count and bundles are what they were before the call.
C4_FailureIsTotal ==
    /\ tcPc \in {"done", "BufferError"} =>
          (tcPc = "BufferError" <=> buf.len < Needed(buf))
    /\ tcPc # "done" =>
          /\ dataCount = dataBefore.count
          /\ dataBundles = dataBefore.bundles

\* the parse of an object that holds two bundles fails at its second bundle
C4_Witness ==
    /\ tcPc = "BufferError"
    /\ Len(tcBundles) = 1
    /\ dataCount = 2
    /\ Len(dataBundles.l) = 2

\* C5: a successful from_bytes sets count to the declared n and yields n
\* bundles in buffer order; bundle k has the timestamp and event count of the
\* header at offset_k (offset_1 = 16, offset_(k+1) = offset_k + 24 + 6 *
\* count_k) and its record i is the one stored at offset_k + 24 + 6 * i.
C5_ParseResult ==
    tcPc = "done" =>
        /\ dataCount = buf.n
        /\ ~dataBundles.none
        /\ Len(dataBundles.l) = buf.n
        /\ \A k \in 1..Len(dataBundles.l) :
              LET b == dataBundles.l[k]
              IN  /\ b.address = OffsetOf(buf, k)
                  /\ b.timestamp = TsOf(buf, k)
                  /\ b.count = EcOf(buf, k)
                  /\ b.events.count = EcOf(buf, k)
                  /\ \A i \in 0..(b.events.count - 1) :
                        /\ EventAddress(b.events, i) =
                              OffsetOf(buf, k)
                                  + TEMPORAL_CONTRAST_EVENTS_TIMESLICE_HEADER
                                  + EventSize * i
                        /\ EventItem(buf, b.events, i) = EventOf(k, i)

\* the worked example: bundle A of two events, bundle B of none
C5_Witness ==
    /\ tcPc = "done"
    /\ buf = ExampleBuffer
    /\ Len(dataBundles.l) = 2
    /\ dataBundles.l[1].timestamp = 100
    /\ dataBundles.l[1].count = 2
    /\ EventItem(buf, dataBundles.l[1].events, 0).p = 1
    /\ dataBundles.l[2].timestamp = 200
    /\ dataBundles.l[2].count = 0

(***************************************************************************)
(* TemporalContrastEventArray: a view of "count" records at an address,    *)
(* with the cursor of its own iteration.  A result holds the indices of    *)
(* the records it is made of, in order.                                    *)
(***************************************************************************)
Min(a, b) == IF a < b THEN a ELSE b
Max(a, b) == IF a < b THEN b ELSE a

\* the address of the first record of a bundle placed first in a buffer
ViewAddress ==
    TEMPORAL_CONTRAST_DATA_HEADER + TEMPORAL_CONTRAST_EVENTS_TIMESLICE_HEADER

\* an omitted slice bound is << >>, a given one is <<n>>
SliceBounds ==
    {<< >>} \cup {<<n>> : n \in (0 - MaxEvents - 1)..(MaxEvents + 1)}
SliceSteps == {<< >>} \cup {<<n>> : n \in (0 - MaxStep)..MaxStep}
IntIndices == (0 - MaxEvents - 2)..(MaxEvents + 2)

\* a bound taken as it is written
KeepIndex(v, length, lower, upper) == IF v < 0 THEN v + length ELSE v

\* slice.indices: a negative bound counts from the end, and every bound is
\* clamped between lower and upper
ClampIndex(v, length, lower, upper) ==
    IF v < 0 THEN Max(v + length, lower) ELSE Min(v, upper)

\* num.indices(self.count), for a step that is not zero
SliceIndices(arg, length) ==
    LET step == IF arg.step = << >> THEN 1 ELSE arg.step[1]
        lower == IF step < 0 THEN -1 ELSE 0
        upper == IF step < 0 THEN length - 1 ELSE length
    IN  [start |-> IF arg.start = << >>
                   THEN (IF step < 0 THEN upper ELSE lower)
                   ELSE ClampIndex(arg.start[1], length, lower, upper),
         stop  |-> IF arg.stop = << >>
                   THEN (IF step < 0 THEN lower ELSE upper)
                   ELSE ClampIndex(arg.stop[1], length, lower, upper),
         step  |-> step]

\* range(start, stop, step) as the sequence of its values
RangeLen(r) ==
    IF r.step > 0
    THEN (IF r.start < r.stop
          THEN ((r.stop - r.start - 1) \div r.step) + 1 ELSE 0)
    ELSE (IF r.start > r.stop
          THEN ((r.start - r.stop - 1) \div (0 - r.step)) + 1 ELSE 0)

Range(r) == [k \in 1..RangeLen(r) |-> r.start + (k - 1) * r.step]

SeqSet(q) == {q[k] : k \in 1..Len(q)}

\* a bounds check that looks at the upper end alone
IndexOverCountOnly(count, num) == count <= num

\* "if self.count <= num or num < 0"
IndexOutOfRange(count, num) == count <= num \/ num < 0

EvFrame == UNCHANGED <<serVars, tcVars, keyVars, enumVars, laterVars>>

\* a test that lets the cursor reach one record past the last
ExhaustedPastLast(count, cursor) == count < cursor

\* "if self.count <= self.cursor"
Exhausted(count, cursor) == count <= cursor

\* __next__
EvNext ==
    /\ evOp # "rest"
    /\ evArg' = NoArg
    /\ evSeen' = << >>
    /\ evOp' = "next"
    /\ IF Exhausted(events.count, events.cursor)
       THEN /\ evResult' = [kind |-> "StopIteration", items |-> << >>]
            /\ evDerefs' = {}
            /\ UNCHANGED <<events, evYielded>>
       ELSE /\ evResult' = [kind |-> "item", items |-> <<events.cursor>>]
            /\ evDerefs' = {events.cursor}
            /\ events' = [events EXCEPT !.cursor = events.cursor + 1]
            /\ evYielded' = Append(evYielded, events.cursor)
    /\ EvFrame

\* __iter__: returns the view itself
EvIter ==
    /\ evOp \in {"init", "next", "iter"}
    /\ evOp' = "iter"
    /\ evArg' = NoArg
    /\ evResult' = [kind |-> "self", items |-> << >>]
    /\ evDerefs' = {}
    /\ evSeen' = << >>
    /\ UNCHANGED <<events, evYielded>>
    /\ EvFrame

\* __getitem__(num) with an int, made on a new view or after a __next__
EvGetItemInt ==
    /\ evOp \in {"init", "next", "iter"}
    /\ \E num \in IntIndices :
          /\ evArg' = [NoArg EXCEPT !.kind = "int", !.num = num]
          /\ IF IndexOutOfRange(events.count, num)
             THEN /\ evResult' = [kind |-> "IndexError", items |-> << >>]
                  /\ evDerefs' = {}
             ELSE /\ evResult' = [kind |-> "item", items |-> <<num>>]
                  /\ evDerefs' = {num}
    /\ evOp' = "getitem_int"
    /\ evSeen' = << >>
    /\ UNCHANGED <<events, evYielded>>
    /\ EvFrame

\* __getitem__(num) with a slice, made on a new view or after a __next__
EvGetItemSlice ==
    /\ evOp \in {"init", "next", "iter"}
    /\ \E start \in SliceBounds, stop \in SliceBounds, step \in SliceSteps :
          LET arg == [kind |-> "slice", num |-> 0, start |-> start,
                      stop |-> stop, step |-> step]
          IN  /\ evArg' = arg
              /\ IF step = <<0>>
                 THEN /\ evResult' = [kind |-> "ValueError", items |-> << >>]
                      /\ evDerefs' = {}
                 ELSE LET items == Range(SliceIndices(arg, events.count))
                      IN  /\ evResult' = [kind |-> "tuple", items |-> items]
                          /\ evDerefs' = SeqSet(items)
    /\ evOp' = "getitem_slice"
    /\ evSeen' = << >>
    /\ UNCHANGED <<events, evYielded>>
    /\ EvFrame

\* __getitem__(num) with anything else, made on a new view or after a __next__
EvGetItemOther ==
    /\ evOp \in {"init", "next", "iter"}
    /\ evArg' = [NoArg EXCEPT !.kind = "other"]
    /\ evResult' = [kind |-> "TypeError", items |-> << >>]
    /\ evDerefs' = {}
    /\ evOp' = "getitem_other"
    /\ evSeen' = << >>
    /\ UNCHANGED <<events, evYielded>>
    /\ EvFrame

\* "for e in t" over a returned tuple: a tuple hands out a new iterator each
\* time and is left as it was
EvIterateTuple ==
    /\ evOp \in {"getitem_slice", "iterate"}
    /\ evResult.kind = "tuple"
    /\ Len(evSeen) < MaxIter
    /\ evSeen' = Append(evSeen, evResult.items)
    /\ evOp' = "iterate"
    /\ UNCHANGED <<events, evArg, evResult, evDerefs, evYielded>>
    /\ EvFrame

EvInit ==
    /\ events \in {EventArray(ViewAddress, c) : c \in 0..MaxEvents}
    /\ evOp = "init"
    /\ evArg = NoArg
    /\ evResult = NoResult
    /\ evDerefs = {}
    /\ evSeen = << >>
    /\ evYielded = << >>
    /\ SerAtRest
    /\ TcAtRest
    /\ KeyAtRest
    /\ EnumAtRest
    /\ LaterAtRest

EvNextStep ==
    \/ EvNext
    \/ EvIter
    \/ EvGetItemInt
    \/ EvGetItemSlice
    \/ EvGetItemOther
    \/ EvIterateTuple

SpecEv == EvInit /\ [][EvNextStep]_vars

(***************************************************************************)
(* Claims about the event view.                                            *)
(***************************************************************************)
RecordIndices == 0..(events.count - 1)

\* C8: events[i] on a view of count c returns record i when 0 <= i < c and
\* raises IndexError, dereferencing nothing, for every other integer i; a
\* negative index is not wrapped.
C8_IndexBoundsChecked ==
    evOp = "getitem_int" =>
        IF evArg.num \in RecordIndices
        THEN /\ evResult = [kind |-> "item", items |-> <<evArg.num>>]
             /\ evDerefs = {evArg.num}
        ELSE /\ evResult.kind = "IndexError"
             /\ evDerefs = {}

\* index -1 of a view that holds records is refused
C8_Witness ==
    /\ evOp = "getitem_int"
    /\ events.count = MaxEvents
    /\ evArg.num = -1
    /\ evResult.kind = "IndexError"

SliceSafe ==
    /\ evResult.kind = "tuple"
    /\ evDerefs \subseteq RecordIndices
    /\ SeqSet(evResult.items) \subseteq RecordIndices
    /\ events.count = 0 => evResult.items = << >>
    /\ \A k \in 1..Len(evSeen) : evSeen[k] = evResult.items

\* C9 as stated: every slice, whatever its start, stop and step, yields a
\* finite sequence of records with indices in [0, count), which is empty
\* for count 0 and gives the same records at each iteration.
C9_AnySliceSafe ==
    evOp \in {"getitem_slice", "iterate"} => SliceSafe

\* C9: every slice whose step is not zero yields a finite sequence of
\* records with indices in [0, count), which is empty for count 0 and gives
\* the same records at each iteration; a slice of step zero raises
\* ValueError and dereferences nothing.
C9_SliceSafe ==
    evOp \in {"getitem_slice", "iterate"} =>
        IF evArg.step = <<0>>
        THEN evResult.kind = "ValueError" /\ evDerefs = {}
        ELSE SliceSafe

\* a backward slice with bounds outside the view, taken after the view's own
\* cursor has moved, and iterated twice
C9_Witness ==
    /\ evOp = "iterate"
    /\ events.count = MaxEvents
    /\ events.cursor > 0
    /\ evArg.start = <<MaxEvents + 1>>
    /\ evArg.stop = <<0 - MaxEvents - 1>>
    /\ evArg.step = <<-1>>
    /\ Len(evResult.items) = MaxEvents
    /\ Len(evSeen) = 2

(***************************************************************************)
(* The property key composer.  A text is a sequence of characters, a byte  *)
(* string a sequence of bytes; an int is its sign and its decimal digits,  *)
(* so that 0xFFFFFFFF and its successor can be written.                    *)
(***************************************************************************)
PyInteger(neg, digits) == [t |-> "int", neg |-> neg, digits |-> digits]
Text(s) == [t |-> "str", s |-> s]
Bytes(s) == [t |-> "bytes", s |-> s]
EmptyBytes == Bytes(<< >>)

\* a character outside ASCII and the two bytes of its UTF-8 form
EAcute == "U+00E9"
EAcuteBytes == <<"0xC3", "0xA9">>

RECURSIVE Utf8Encode(_)
\* str.encode('utf-8')
Utf8Encode(s) ==
    IF s = << >> THEN << >>
    ELSE (IF Head(s) = EAcute THEN EAcuteBytes ELSE <<Head(s)>>)
             \o Utf8Encode(Tail(s))

RECURSIVE Utf8Valid(_)
Utf8Valid(b) ==
    IF b = << >> THEN TRUE
    ELSE IF Head(b) = EAcuteBytes[1]
         THEN Len(b) >= 2 /\ b[2] = EAcuteBytes[2] /\ Utf8Valid(Tail(Tail(b)))
         ELSE Head(b) # EAcuteBytes[2] /\ Utf8Valid(Tail(b))

RECURSIVE Utf8Decode(_)
\* bytes.decode('utf-8'), for bytes that are valid UTF-8
Utf8Decode(b) ==
    IF b = << >> THEN << >>
    ELSE IF Head(b) = EAcuteBytes[1]
         THEN <<EAcute>> \o Utf8Decode(Tail(Tail(b)))
         ELSE <<Head(b)>> \o Utf8Decode(Tail(b))

DigitChars == <<"0", "1", "2", "3", "4", "5", "6", "7", "8", "9">>

\* str(value) of an int; a bool, which is an int, prints as its name
StrOfInt(n) ==
    IF n.t = "bool"
    THEN (IF n.digits = <<1>> THEN <<"T", "r", "u", "e">>
          ELSE <<"F", "a", "l", "s", "e">>)
    ELSE (IF n.neg THEN <<"-">> ELSE << >>)
             \o [k \in 1..Len(n.digits) |-> DigitChars[n.digits[k] + 1]]

\* isinstance(value, int)
IsInt(v) == v.t \in {"int", "bool"}

DigitsLess(x, y) ==
    \/ Len(x) < Len(y)
    \/ /\ Len(x) = Len(y)
       /\ \E k \in 1..Len(x) :
             /\ x[k] < y[k]
             /\ \A j \in 1..(k - 1) : x[j] = y[j]

\* a comparison that looks at the digits alone
IntLessUnsigned(a, b) == DigitsLess(a.digits, b.digits)

\* a < b on ints
IntLess(a, b) ==
    IF a.neg
    THEN (IF b.neg THEN DigitsLess(b.digits, a.digits) ELSE TRUE)
    ELSE (IF b.neg THEN FALSE ELSE DigitsLess(a.digits, b.digits))

IntZero == PyInteger(FALSE, <<0>>)
\* 0xFFFFFFFF
UInt32Max == PyInteger(FALSE, <<4, 2, 9, 4, 9, 6, 7, 2, 9, 5>>)

\* str.find and str.rfind of one character: index from 0, or -1
Find(s, c) ==
    IF \E k \in 1..Len(s) : s[k] = c
    THEN (CHOOSE k \in 1..Len(s) :
              s[k] = c /\ \A j \in 1..(k - 1) : s[j] # c) - 1
    ELSE -1

RFind(s, c) ==
    IF \E k \in 1..Len(s) : s[k] = c
    THEN (CHOOSE k \in 1..Len(s) :
              s[k] = c /\ \A j \in (k + 1)..Len(s) : s[j] # c) - 1
    ELSE -1

\* s[a:b] for 0 <= a and 0 <= b
Slice(s, a, b) ==
    IF a >= Min(b, Len(s)) THEN << >> ELSE SubSeq(s, a + 1, Min(b, Len(s)))

RECURSIVE Split(_, _)
\* str.split(sep) for a separator of one character
Split(s, sep) ==
    LET pos == Find(s, sep)
    IN  IF pos = -1 THEN <<s>>
        ELSE <<Slice(s, 0, pos)>> \o Split(Slice(s, pos + 1, Len(s)), sep)

\* self._append_dict[k] = v that adds an entry whatever the dict holds
AppendDictAdd(d, k, v) == Append(d, [k |-> k, v |-> v])

\* self._append_dict[k] = v on a dict kept as its entries in insertion
\* order: an existing key keeps its place
AppendDictSet(d, k, v) ==
    IF \E j \in 1..Len(d) : d[j].k = k
    THEN [j \in 1..Len(d) |-> IF d[j].k = k THEN [k |-> k, v |-> v] ELSE d[j]]
    ELSE Append(d, [k |-> k, v |-> v])

RECURSIVE ParsePieces(_, _)
\* the loop of _parse_append_info over the pieces of the attribute block
ParsePieces(pieces, d) ==
    IF pieces = << >> THEN d
    ELSE LET append == Head(pieces)
             pos == Find(append, "=")
         IN  ParsePieces(Tail(pieces),
                 IF pos # -1
                 THEN AppendDictSet(d, Slice(append, 0, pos + 1),
                                    Slice(append, pos + 1, Len(append)))
                 ELSE d)

\* PropertyUtilsParam._parse_append_info
ParseAppendInfo(decode_key) ==
    LET last_spos == RFind(decode_key, "[")
        first_epos == Find(decode_key, "]")
        append == Slice(decode_key, last_spos + 1, first_epos)
    IN  ParsePieces(Split(append, ","), << >>)

\* PropertyUtilsParam.__init__ and _parse_key, for a key that decodes
PropertyUtilsParam(k) ==
    IF k.t \notin {"bytes", "str"}
    THEN [made |-> TRUE, key |-> << >>, append_dict |-> << >>]
    ELSE LET decode_key == IF k.t = "bytes" THEN Utf8Decode(k.s) ELSE k.s
             spos == Find(decode_key, "[")
             epos == RFind(decode_key, "]")
         IN  IF spos = -1
             THEN [made |-> TRUE,
                   key |-> IF epos = -1 THEN decode_key ELSE << >>,
                   append_dict |-> << >>]
             ELSE IF epos # Len(decode_key) - 1 \/ spos = 0
             THEN [made |-> TRUE, key |-> << >>, append_dict |-> << >>]
             ELSE [made |-> TRUE,
                   key |-> Slice(decode_key, 0, spos),
                   append_dict |-> ParseAppendInfo(decode_key)]

SET_CHANNEL_ID == <<"c", "h", "=">>

\* PropertyUtilsParam.set_channel_id
ParamSetChannelId(u, value) ==
    [u EXCEPT !.append_dict = AppendDictSet(@, SET_CHANNEL_ID, StrOfInt(value))]

RECURSIVE JoinEntriesCommaAfterEach(_, _)
\* a loop that writes "," after every entry, the last one included
JoinEntriesCommaAfterEach(d, count) ==
    IF count > Len(d) THEN << >>
    ELSE d[count].k \o d[count].v \o <<",">>
             \o JoinEntriesCommaAfterEach(d, count + 1)

RECURSIVE JoinEntries(_, _)
\* the loop of get_full_key: key and value of each entry, "," between
JoinEntries(d, count) ==
    IF count > Len(d) THEN << >>
    ELSE d[count].k \o d[count].v
             \o (IF count # Len(d) THEN <<",">> ELSE << >>)
             \o JoinEntries(d, count + 1)

\* a composition that does not look at the base
GetFullKeyAnyBase(u) ==
    u.key \o <<"[">> \o JoinEntries(u.append_dict, 1) \o <<"]">>

\* PropertyUtilsParam.get_full_key
GetFullKey(u) ==
    IF u.key = << >> THEN << >>
    ELSE u.key \o <<"[">> \o JoinEntries(u.append_dict, 1) \o <<"]">>

\* "not key"
KeyFalsy(k) == k.t = "NoneType" \/ k.s = << >>

\* the PropertyUtilsParam that PropertyUtils.set_channel_id builds and
\* updates, when it gets that far
SetChannelIdParam(k, channel_id) ==
    IF KeyFalsy(k) \/ ~IsInt(channel_id) THEN NoParam
    ELSE IF IntLess(channel_id, IntZero) \/ IntLess(UInt32Max, channel_id)
    THEN NoParam
    ELSE IF k.t = "bytes" /\ ~Utf8Valid(k.s) THEN NoParam
    ELSE ParamSetChannelId(PropertyUtilsParam(k), channel_id)

\* PropertyUtils.set_channel_id
SetChannelId(k, channel_id) ==
    IF KeyFalsy(k) \/ ~IsInt(channel_id) THEN EmptyBytes
    ELSE IF IntLess(channel_id, IntZero) \/ IntLess(UInt32Max, channel_id)
    THEN EmptyBytes
    ELSE IF k.t = "bytes" /\ ~Utf8Valid(k.s)
    THEN [t |-> "UnicodeDecodeError", s |-> << >>]
    ELSE Bytes(Utf8Encode(GetFullKey(SetChannelIdParam(k, channel_id))))

(***************************************************************************)
(* Keys handed to the composer: a base, alone or followed by one bracket   *)
(* block of name=value attributes, as text or as bytes; and a few keys     *)
(* written out, among them malformed ones.                                 *)
(***************************************************************************)
Attr(name, value) == [name |-> name, value |-> value]
ChName == <<"c", "h">>

AttrChoices ==
    {Attr(ChName, <<"0">>), Attr(ChName, <<"1", "2">>),
     Attr(<<"x">>, <<"1">>), Attr(<<"y">>, << >>), Attr(<<"c">>, <<"h">>)}

Bases == {<<"p">>, <<"k", EAcute>>}

Shape(base, bracket, attrs) ==
    [wellFormed |-> TRUE, base |-> base, bracket |-> bracket,
     attrs |-> attrs]

Shapes ==
    {Shape(b, FALSE, << >>) : b \in Bases}
        \cup {Shape(b, TRUE, a) :
                  b \in Bases, a \in SeqsUpTo(AttrChoices, MaxAttrs)}

RECURSIVE RenderAttrs(_)
RenderAttrs(attrs) ==
    IF attrs = << >> THEN << >>
    ELSE Head(attrs).name \o <<"=">> \o Head(attrs).value
             \o (IF Len(attrs) > 1 THEN <<",">> ELSE << >>)
             \o RenderAttrs(Tail(attrs))

\* the text of a key of the given shape
Render(shape) ==
    shape.base
        \o (IF shape.bracket
            THEN <<"[">> \o RenderAttrs(shape.attrs) \o <<"]">>
            ELSE << >>)

LiteralKeys ==
    {<< >>,
     <<"[", "b", "a", "d">>,
     <<"p", "]">>,
     <<"[", "x", "=", "1", "]">>,
     <<"p", "[", "x", "=", "1", "]", "p">>,
     <<"p", "[", "x", "=", "1", "]", "[", "y", "=", "2", "]">>}

\* every key of up to MaxKeyLen characters over a letter, the brackets
\* and "="
KeyChars == {"p", "[", "]", "="}
BracketKeys == SeqsUpTo(KeyChars, MaxKeyLen)

KeySources ==
    {[shape |-> sh, text |-> Render(sh)] : sh \in Shapes}
        \cup {[shape |-> NoShape, text |-> t] :
                  t \in LiteralKeys \cup BracketKeys}

ChannelIds ==
    {IntZero, PyInteger(FALSE, <<7>>), PyInteger(FALSE, <<1, 2>>),
     UInt32Max, PyInteger(TRUE, <<1>>),
     PyInteger(FALSE, <<4, 2, 9, 4, 9, 6, 7, 2, 9, 6>>), NoChannel,
     [t |-> "bool", neg |-> FALSE, digits |-> <<1>>],
     [t |-> "float", neg |-> FALSE, digits |-> <<1>>],
     [t |-> "str", neg |-> FALSE, digits |-> <<1>>]}

ValidChannelId(c) ==
    c.t = "int" /\ ~IntLess(c, IntZero) /\ ~IntLess(UInt32Max, c)

HasCh(attrs) == \E j \in 1..Len(attrs) : attrs[j].name = ChName

\* the attributes the composed key is to carry: ch replaced where it
\* stands, or added last
WithChannel(attrs, c) ==
    IF HasCh(attrs)
    THEN [j \in 1..Len(attrs) |->
             IF attrs[j].name = ChName THEN Attr(ChName, StrOfInt(c))
             ELSE attrs[j]]
    ELSE Append(attrs, Attr(ChName, StrOfInt(c)))

DistinctNames(attrs) ==
    \A i, j \in 1..Len(attrs) : attrs[i].name = attrs[j].name => i = j

KeyFrame == UNCHANGED <<serVars, tcVars, evVars, enumVars, laterVars>>

\* one call of PropertyUtils.set_channel_id(key, channel_id)
KeySetChannelId ==
    /\ keyOp \in {"init", "use_result"}
    /\ keyCalls < MaxCalls
    /\ \E c \in ChannelIds :
          /\ channelId' = c
          /\ keyParam' = SetChannelIdParam(keyArg, c)
          /\ keyResult' = SetChannelId(keyArg, c)
    /\ keyOp' = "set_channel_id"
    /\ keyCalls' = keyCalls + 1
    /\ UNCHANGED <<keyArg, keyShape, keyPast>>
    /\ KeyFrame

\* the caller passes the key it was given back as the key of its next call
KeyUseResult ==
    /\ keyOp = "set_channel_id"
    /\ keyCalls < MaxCalls
    /\ keyResult.t = "bytes"
    /\ keyArg' = keyResult
    /\ keyShape' =
          LET e == Shape(keyShape.base, TRUE,
                         WithChannel(keyShape.attrs, channelId))
          IN  IF keyShape.wellFormed /\ keyResult.s = Utf8Encode(Render(e))
              THEN e ELSE NoShape
    /\ channelId' = NoChannel
    /\ keyParam' = NoParam
    /\ keyResult' = NoKey
    /\ keyOp' = "use_result"
    /\ keyPast' = Append(keyPast, [key |-> keyArg, channel_id |-> channelId,
                                   result |-> keyResult])
    /\ UNCHANGED keyCalls
    /\ KeyFrame

\* PropertyUtilsParam(key).get_full_key(), with no channel id set
KeyGetFullKey ==
    /\ keyOp = "init"
    /\ keyArg.t \in {"str", "bytes"}
    /\ IF keyArg.t = "bytes" /\ ~Utf8Valid(keyArg.s)
       THEN /\ keyParam' = NoParam
            /\ keyResult' = [t |-> "UnicodeDecodeError", s |-> << >>]
       ELSE /\ keyParam' = PropertyUtilsParam(keyArg)
            /\ keyResult' = Text(GetFullKey(keyParam'))
    /\ keyOp' = "get_full_key"
    /\ UNCHANGED <<keyArg, keyShape, channelId, keyCalls, keyPast>>
    /\ KeyFrame

KeyInit ==
    /\ \E src \in KeySources :
          /\ keyShape = src.shape
          /\ keyArg \in {Text(src.text), Bytes(Utf8Encode(src.text))}
                          \cup (IF src.text = << >>
                                THEN {NoKey, Bytes(<<EAcuteBytes[1]>>)}
                                ELSE {})
    /\ channelId = NoChannel
    /\ keyParam = NoParam
    /\ keyResult = NoKey
    /\ keyOp = "init"
    /\ keyCalls = 0
    /\ keyPast = << >>
    /\ SerAtRest
    /\ TcAtRest
    /\ EvAtRest
    /\ EnumAtRest
    /\ LaterAtRest

KeyNext ==
    \/ KeySetChannelId
    \/ KeyGetFullKey
    \/ KeyUseResult

SpecKey == KeyInit /\ [][KeyNext]_vars

(***************************************************************************)
(* Claims about the key composer.                                          *)
(***************************************************************************)
\* C10: for a key made of a base and at most one bracket block of
\* attributes with distinct names, and a channel id c in range,
\* PropertyUtils.set_channel_id returns the base followed by the same
\* attributes in the same order, where an existing ch attribute has its
\* value replaced by c in place and a missing one is added last as ch=c;
\* the result holds exactly one ch= entry.
C10_ChannelAppendedOrReplaced ==
    (/\ keyOp = "set_channel_id"
     /\ keyShape.wellFormed
     /\ DistinctNames(keyShape.attrs)
     /\ ValidChannelId(channelId)) =>
        LET attrs == WithChannel(keyShape.attrs, channelId)
        IN  /\ keyResult =
                  Bytes(Utf8Encode(Render(Shape(keyShape.base, TRUE, attrs))))
            /\ Cardinality({j \in 1..Len(attrs) : attrs[j].name = ChName}) = 1
            /\ Cardinality({j \in 1..Len(keyParam.append_dict) :
                               keyParam.append_dict[j].k = SET_CHANNEL_ID}) = 1

\* p[x=1] was given ch=7, added last, and the key that came back is given
\* ch=12, which takes the place of ch=7
C10_Witness ==
    /\ keyOp = "set_channel_id"
    /\ keyCalls = 2
    /\ keyArg = Bytes(<<"p", "[", "x", "=", "1", ",", "c", "h", "=", "7", "]">>)
    /\ keyResult =
          Bytes(<<"p", "[", "x", "=", "1", ",", "c", "h", "=", "1", "2", "]">>)

\* the text of a key given as text or as bytes that decode
Decodable(k) == k.t = "str" \/ (k.t = "bytes" /\ Utf8Valid(k.s))
KeyText(k) == IF k.t = "bytes" THEN Utf8Decode(k.s) ELSE k.s

HasChar(s, c) == \E j \in 1..Len(s) : s[j] = c

\* a key with "]" and no "[", or with a bracket and its last "]" not at the
\* end, or that begins with "["
Malformed(s) ==
    \/ HasChar(s, "]") /\ ~HasChar(s, "[")
    \/ HasChar(s, "]") /\ s[Len(s)] # "]"
    \/ HasChar(s, "[") /\ ~HasChar(s, "]")
    \/ HasChar(s, "[") /\ s[1] = "["

ValidKey(k) ==
    Decodable(k) /\ KeyText(k) # << >> /\ ~Malformed(KeyText(k))

\* C12: set_channel_id returns the empty result for every channel id that is
\* not an int or is outside [0, 4294967295], whatever the key, and a key that
\* is not empty for every int in [0, 4294967295] when the key is valid.
C12_ChannelIdRange ==
    keyOp = "set_channel_id" =>
        /\ (~IsInt(channelId)
            \/ channelId.neg
            \/ DigitsLess(UInt32Max.digits, channelId.digits)) =>
                keyResult = EmptyBytes
        /\ (/\ IsInt(channelId)
            /\ ~channelId.neg
            /\ ~DigitsLess(UInt32Max.digits, channelId.digits)
            /\ ValidKey(keyArg)) =>
                keyResult.t = "bytes" /\ keyResult.s # << >>

\* the largest id, 4294967295, set on a key given as bytes
C12_Witness ==
    /\ keyOp = "set_channel_id"
    /\ keyArg = Bytes(<<"p", "[", "x", "=", "1", "]">>)
    /\ channelId = UInt32Max
    /\ Len(keyResult.s) = 20

(***************************************************************************)
(* Further claims about the serializer.                                    *)
(***************************************************************************)
\* the fields of kind cls declared with an enum class
EnumFields(cls) ==
    {j \in 1..Len(Fields(cls)) : IsClass(Fields(cls)[j].type, EnumClasses)}

\* C13: a field declared with an enum type, once decoded from a wire map
\* that holds it, is a value of that enum type holding the wire integer,
\* whether or not the integer is in the enum's table.
C13_EnumFieldDecodedAsEnum ==
    (serOp \in {"from_bytes", "from_dict"} /\ dec.t = "struct") =>
        \A j \in EnumFields(kind) :
            dec.l[j] # PyNone =>
                /\ dec.l[j].t = "enum"
                /\ dec.l[j].s = Fields(kind)[j].type.n

(***************************************************************************)
(* CEnum: a ctypes c_int with a table of names.  A Python int n is kept as *)
(* n = q * 2^32 + r, r a signed 32-bit int; a c_int keeps r.               *)
(***************************************************************************)
Named(name, value) == [name |-> name, value |-> value]

\* _names_ of the enum classes
EnumTable(cls) ==
    CASE cls = "StreamState" ->
            <<Named("UNDEFINED", 0), Named("READY", 1), Named("RUNNING", 2)>>
      [] cls = "PlaySpeed" ->
            <<Named("BASED_ON_FRAMERATE", 0), Named("BEST_EFFORT", 1)>>
      [] cls = "AudioPcmFormat" ->
            <<Named("UNKNOWN", -1), Named("S8", 0), Named("U8", 1),
              Named("S16LE", 2), Named("S16BE", 3), Named("U16LE", 4),
              Named("U16BE", 5), Named("S24LE3", 6), Named("S24BE3", 7),
              Named("U24LE3", 8), Named("U24BE3", 9), Named("S24LE", 10),
              Named("S24BE", 11), Named("U24LE", 12), Named("U24BE", 13),
              Named("S32LE", 14), Named("S32BE", 15), Named("U32LE", 16),
              Named("U32BE", 17), Named("FLOAT32LE", 18),
              Named("FLOAT32BE", 19), Named("FLOAT64LE", 20),
              Named("FLOAT64BE", 21)>>
      [] OTHER -> << >>

CEnumClasses == {"StreamState", "PlaySpeed", "AudioPcmFormat"}

\* the keys of _values_, filled by CEnumMeta.__new__
EnumValues(cls) == {EnumTable(cls)[j].value : j \in 1..Len(EnumTable(cls))}

\* _values_.get(value): the name in a one-element sequence, or nothing
EnumNameOf(cls, value) ==
    LET hits == {j \in 1..Len(EnumTable(cls)) : EnumTable(cls)[j].value = value}
    IN  IF hits = {} THEN << >>
        ELSE <<EnumTable(cls)[CHOOSE j \in hits : TRUE].name>>

\* integers around the table of a class
EnumRange(cls) ==
    LET vs == EnumValues(cls)
        lo == CHOOSE v \in vs : \A w \in vs : v <= w
        hi == CHOOSE v \in vs : \A w \in vs : w <= v
    IN  (lo - MaxOutside)..(hi + MaxOutside)

Wraps == (0 - MaxWrap)..MaxWrap

\* ctypes.c_int(n).value: the low 32 bits of n, as a signed int
CInt(n) == n.r

\* int(self) of a CEnum holding value
IntOfEnum(value) == WideInt(0, value)

\* an int(other) that goes through a c_int
IntOfOperandAsCInt(o) == WideInt(0, o.r)

\* int(other): of a CEnum its value, of an int the int
IntOfOperand(o) == IF o.t = "enum" THEN WideInt(0, o.r) ELSE WideInt(o.q, o.r)

WideLess(a, b) == a.q < b.q \/ (a.q = b.q /\ a.r < b.r)

CompareOps == {"eq", "ne", "lt", "le", "gt", "ge"}

\* __eq__, __ne__, __lt__, __le__, __gt__, __ge__: on int(self), int(other)
CEnumCompare(op, a, b) ==
    CASE op = "eq" -> a = b
      [] op = "ne" -> a # b
      [] op = "lt" -> WideLess(a, b)
      [] op = "le" -> WideLess(a, b) \/ a = b
      [] op = "gt" -> WideLess(b, a)
      [] op = "ge" -> WideLess(b, a) \/ a = b

\* hash(n) of an int far below the modulus of hash: n, but -2 for -1
HashOfInt(n) == IF n = WideInt(0, -1) THEN WideInt(0, -2) ELSE n

BoolOutcome(b) == [NoOutcome EXCEPT !.t = "bool", !.b = b]
IntOutcome(i) == [NoOutcome EXCEPT !.t = "int", !.i = i]

Operands(cls) ==
    {[t |-> "enum", cls |-> c, q |-> 0, r |-> v] :
         c \in {cls, "StreamState"}, v \in EnumRange(cls)}
        \cup {[t |-> "int", cls |-> "", q |-> q, r |-> r] :
                  q \in Wraps, r \in EnumRange(cls)}

EnumFrame == UNCHANGED <<serVars, tcVars, evVars, keyVars, laterVars>>

\* cls(n)
EnumConstruct ==
    /\ enumOp = "init"
    /\ enumVal' = CInt(enumN)
    /\ enumOp' = "construct"
    /\ UNCHANGED <<enumCls, enumN, enumOther, enumResult>>
    /\ EnumFrame

\* self == other, self != other, self < other, ...
EnumCompare ==
    /\ enumOp = "construct"
    /\ \E op \in CompareOps, o \in Operands(enumCls) :
          /\ enumOp' = op
          /\ enumOther' = o
          /\ enumResult' =
                BoolOutcome(CEnumCompare(op, IntOfEnum(enumVal),
                                         IntOfOperand(o)))
    /\ UNCHANGED <<enumCls, enumN, enumVal>>
    /\ EnumFrame

\* hash(self)
EnumHash ==
    /\ enumOp = "construct"
    /\ enumOp' = "hash"
    /\ enumResult' = IntOutcome(HashOfInt(IntOfEnum(enumVal)).r)
    /\ UNCHANGED <<enumCls, enumN, enumVal, enumOther>>
    /\ EnumFrame

\* repr(self): Class.NAME (s is the name) or Class(value) (i is the value)
EnumRepr ==
    /\ enumOp = "construct"
    /\ enumOp' = "repr"
    /\ LET name == EnumNameOf(enumCls, enumVal)
       IN  enumResult' =
              IF name = << >>
              THEN [NoOutcome EXCEPT !.t = "str", !.i = enumVal]
              ELSE [NoOutcome EXCEPT !.t = "str", !.b = TRUE, !.s = name[1]]
    /\ UNCHANGED <<enumCls, enumN, enumVal, enumOther>>
    /\ EnumFrame

EnumInit ==
    /\ enumCls \in CEnumClasses
    /\ enumN \in {WideInt(q, r) : q \in Wraps, r \in EnumRange(enumCls)}
    /\ enumVal = 0
    /\ enumOp = "init"
    /\ enumOther = NoOperand
    /\ enumResult = NoOutcome
    /\ SerAtRest
    /\ TcAtRest
    /\ EvAtRest
    /\ KeyAtRest
    /\ LaterAtRest

(***************************************************************************)
(* AudioPcmFormat: the side table of the formats and its lookups.          *)
(***************************************************************************)
Row(byte, bit, sint, uint, float, little, big) ==
    [byte |-> byte, bit |-> bit, sint |-> sint, uint |-> uint,
     float |-> float, little |-> little, big |-> big]

\* __table, keyed by the integers 0..21: entry v + 1 is the row of v
AudioTable ==
    <<Row(1, 8, TRUE, FALSE, FALSE, TRUE, TRUE),
      Row(1, 8, FALSE, TRUE, FALSE, TRUE, TRUE),
      Row(2, 16, TRUE, FALSE, FALSE, TRUE, FALSE),
      Row(2, 16, TRUE, FALSE, FALSE, FALSE, TRUE),
      Row(2, 16, FALSE, TRUE, FALSE, TRUE, FALSE),
      Row(2, 16, FALSE, TRUE, FALSE, FALSE, TRUE),
      Row(3, 24, TRUE, FALSE, FALSE, TRUE, FALSE),
      Row(3, 24, TRUE, FALSE, FALSE, FALSE, TRUE),
      Row(3, 24, FALSE, TRUE, FALSE, TRUE, FALSE),
      Row(3, 24, FALSE, TRUE, FALSE, FALSE, TRUE),
      Row(4, 24, TRUE, FALSE, FALSE, TRUE, FALSE),
      Row(4, 24, TRUE, FALSE, FALSE, FALSE, TRUE),
      Row(4, 24, FALSE, TRUE, FALSE, TRUE, FALSE),
      Row(4, 24, FALSE, TRUE, FALSE, FALSE, TRUE),
      Row(4, 32, TRUE, FALSE, FALSE, TRUE, FALSE),
      Row(4, 32, TRUE, FALSE, FALSE, FALSE, TRUE),
      Row(4, 32, FALSE, TRUE, FALSE, TRUE, FALSE),
      Row(4, 32, FALSE, TRUE, FALSE, FALSE, TRUE),
      Row(4, 32, FALSE, FALSE, TRUE, TRUE, FALSE),
      Row(4, 32, FALSE, FALSE, TRUE, FALSE, TRUE),
      Row(8, 64, FALSE, FALSE, TRUE, TRUE, FALSE),
      Row(8, 64, FALSE, FALSE, TRUE, FALSE, TRUE)>>

\* a lookup that reduces the value to the size of the table
AudioRowWrapped(value) == <<AudioTable[(value % Len(AudioTable)) + 1]>>

\* self.__table.get(self): the row in a one-element sequence, or nothing
AudioRow(value) ==
    IF value + 1 \in DOMAIN AudioTable THEN <<AudioTable[value + 1]>>
    ELSE << >>

AudioLookups ==
    {"byte_width", "bits_per_sample", "is_signed", "is_unsigned",
     "is_float", "is_little_endian", "is_big_endian"}

\* byte_width(), bits_per_sample(), is_signed(), ...: "if value" picks the
\* column of the row, and the default is returned without a row
AudioLookup(method, value) ==
    LET row == AudioRow(value)
        found == row # << >>
    IN  CASE method = "byte_width" ->
                IntOutcome(IF found THEN row[1].byte ELSE 0)
          [] method = "bits_per_sample" ->
                IntOutcome(IF found THEN row[1].bit ELSE 0)
          [] method = "is_signed" ->
                BoolOutcome(IF found THEN row[1].sint ELSE FALSE)
          [] method = "is_unsigned" ->
                BoolOutcome(IF found THEN row[1].uint ELSE FALSE)
          [] method = "is_float" ->
                BoolOutcome(IF found THEN row[1].float ELSE FALSE)
          [] method = "is_little_endian" ->
                BoolOutcome(IF found THEN row[1].little ELSE FALSE)
          [] method = "is_big_endian" ->
                BoolOutcome(IF found THEN row[1].big ELSE FALSE)

\* one lookup on an AudioPcmFormat value
EnumAudioLookup ==
    /\ enumOp = "construct"
    /\ enumCls = "AudioPcmFormat"
    /\ \E method \in AudioLookups :
          /\ enumOp' = method
          /\ enumResult' = AudioLookup(method, enumVal)
    /\ UNCHANGED <<enumCls, enumN, enumVal, enumOther>>
    /\ EnumFrame

EnumNext ==
    \/ EnumConstruct
    \/ EnumCompare
    \/ EnumHash
    \/ EnumRepr
    \/ EnumAudioLookup

SpecEnum == EnumInit /\ [][EnumNext]_vars

(***************************************************************************)
(* Claims about the enums.                                                 *)
(***************************************************************************)
Constructed == enumOp \notin {"rest", "init"}

\* the other operand is a named constant of the value's own class
OtherIsNamed ==
    /\ enumOther.t = "enum"
    /\ enumOther.cls = enumCls
    /\ enumOther.r \in EnumValues(enumCls)

\* what an operation gives on two ints n = q * 2^32 + r
IntCompare(op, aq, ar, bq, br) ==
    LET less == aq < bq \/ (aq = bq /\ ar < br)
        same == aq = bq /\ ar = br
    IN  CASE op = "eq" -> same
          [] op = "ne" -> ~same
          [] op = "lt" -> less
          [] op = "le" -> less \/ same
          [] op = "gt" -> ~less /\ ~same
          [] op = "ge" -> ~less

ComparisonsAsIntegers ==
    /\ enumOp \in CompareOps =>
          enumResult =
              BoolOutcome(IntCompare(enumOp, 0, enumVal,
                                     IF enumOther.t = "enum" THEN 0
                                     ELSE enumOther.q,
                                     enumOther.r))
    /\ enumOp = "hash" =>
          enumResult = IntOutcome(IF enumVal = -1 THEN -2 ELSE enumVal)

\* C14 as stated: an enum made from any integer N that is not in its table
\* is unequal to every named constant of the enum, and its comparisons and
\* hash are those of the underlying integers.
C14_UnknownNeverEqualsNamed ==
    /\ (/\ enumOp = "eq"
        /\ OtherIsNamed
        /\ ~(enumN.q = 0 /\ enumN.r \in EnumValues(enumCls))) =>
            enumResult = BoolOutcome(FALSE)
    /\ ComparisonsAsIntegers

\* C14: an enum made from an integer N of the 32-bit signed range that is
\* not in its table holds N and is unequal to every named constant of the
\* enum; the comparisons and the hash of any enum value are those of the
\* underlying integers.
C14_EnumPermissive ==
    /\ (Constructed /\ enumN.q = 0) => enumVal = enumN.r
    /\ (/\ enumOp = "eq"
        /\ OtherIsNamed
        /\ enumN.q = 0
        /\ enumN.r \notin EnumValues(enumCls)) =>
            enumResult = BoolOutcome(FALSE)
    /\ ComparisonsAsIntegers

\* StreamState(3), not in the table, is compared with StreamState.RUNNING
C14_Witness ==
    /\ enumOp = "eq"
    /\ enumCls = "StreamState"
    /\ enumN = WideInt(0, 3)
    /\ enumOther = [t |-> "enum", cls |-> "StreamState", q |-> 0, r |-> 2]
    /\ enumResult = BoolOutcome(FALSE)

\* the columns of the formats as their names give them: S8, U8, then
\* S16LE, S16BE, U16LE, U16BE and so on, the floats last
NamedRow(v) ==
    Row(IF v <= 1 THEN 1 ELSE IF v <= 5 THEN 2 ELSE IF v <= 9 THEN 3
        ELSE IF v <= 19 THEN 4 ELSE 8,
        IF v <= 1 THEN 8 ELSE IF v <= 5 THEN 16 ELSE IF v <= 13 THEN 24
        ELSE IF v <= 19 THEN 32 ELSE 64,
        IF v <= 1 THEN v = 0 ELSE v <= 17 /\ (v \div 2) % 2 = 1,
        IF v <= 1 THEN v = 1 ELSE v <= 17 /\ (v \div 2) % 2 = 0,
        v >= 18,
        v <= 1 \/ v % 2 = 0,
        v <= 1 \/ v % 2 = 1)

\* C20: on an AudioPcmFormat value outside 0..21, UNKNOWN = -1 included,
\* byte_width() and bits_per_sample() return 0 and the is_...() lookups
\* return False; on a value in 0..21 each lookup returns the column of that
\* value's row.
C20_AudioLookupDefaults ==
    enumOp \in AudioLookups =>
        LET known == enumVal \in 0..21
            row == NamedRow(enumVal)
        IN  enumResult =
              CASE enumOp = "byte_width" ->
                      IntOutcome(IF known THEN row.byte ELSE 0)
                [] enumOp = "bits_per_sample" ->
                      IntOutcome(IF known THEN row.bit ELSE 0)
                [] enumOp = "is_signed" -> BoolOutcome(known /\ row.sint)
                [] enumOp = "is_unsigned" -> BoolOutcome(known /\ row.uint)
                [] enumOp = "is_float" -> BoolOutcome(known /\ row.float)
                [] enumOp = "is_little_endian" ->
                      BoolOutcome(known /\ row.little)
                [] enumOp = "is_big_endian" -> BoolOutcome(known /\ row.big)

\* byte_width() of UNKNOWN
C20_Witness ==
    /\ enumOp = "byte_width"
    /\ enumCls = "AudioPcmFormat"
    /\ enumN = WideInt(0, -1)
    /\ enumResult = IntOutcome(0)

(***************************************************************************)
(* Claims about the decoder's two forms of field-name keys.                *)
(***************************************************************************)
\* the wire map of the last to_bytes with its field names in one form and
\* one field left out
MapInForm(form, drop) ==
    DropEntry(Rekey(Unpack(wire), Cls(kind), form), drop)

\* C15: from_dict gives the same structure for a wire map whose field names
\* are text as for the same map with the field names as byte strings.
C15_KeyFormsAgree ==
    serOp = "from_dict" =>
        \A form \in KeyForms, drop \in 0..Len(Fields(kind)) :
            inDict = MapInForm(form, drop) =>
                \A other \in KeyForms :
                    Outcome(FromDict(Construct(kind), MapInForm(other, drop)))
                        = dec

(***************************************************************************)
(* Claims about values of another shape than the declared type.            *)
(***************************************************************************)
RECURSIVE ShapeFits(_, _)
\* the value has the shape of the declared type (an enum travels as an int)
ShapeFits(v, ct) ==
    LET cur == CurrentClass(ct)
        rest == RestClass(ct)
    IN  CASE IsClass(cur, IntegerClasses \cup EnumClasses) ->
                v.t \in {"int", "enum"}
          [] IsClass(cur, FloatClasses) -> v.t \in {"float", "int"}
          [] IsClass(cur, {"Bool"}) -> v.t = "bool"
          [] IsClass(cur, {"String"}) -> v.t \in {"bytes", "str"}
          [] IsClass(cur, {"list"}) ->
                /\ v.t = "list"
                /\ \A j \in 1..Len(v.l) : ShapeFits(v.l[j], rest)
          [] IsClass(cur, {"dict"}) ->
                /\ v.t = "dict"
                /\ \A j \in 1..Len(v.l) :
                      /\ ShapeFits(v.l[j].l[1], PairClass(rest).l[1])
                      /\ ShapeFits(v.l[j].l[2], PairClass(rest).l[2])
          [] IsClass(cur, StructClasses) ->
                /\ v.t = "struct"
                /\ \A j \in 1..Len(v.l) :
                      v.l[j] = PyNone \/ ShapeFits(v.l[j], Fields(cur.n)[j].type)
          [] cur.k = "arr" ->
                /\ v.t = "list"
                /\ \A j \in 1..Len(v.l) : ShapeFits(v.l[j], Cls(cur.n))
          [] OTHER -> FALSE

\* C16: a decode never returns a structure that holds a value of another
\* shape than the declared type of its field: a value that does not fit
\* makes the decode fail.
C16_MisfitRejected ==
    (serOp \in {"from_bytes", "from_dict", "from_dict_other"}
         /\ dec.t = "struct") => ShapeFits(dec, Cls(kind))

(***************************************************************************)
(* Claims about Structure.to_dict.                                         *)
(***************************************************************************)
RECURSIVE EncodingOf(_, _, _)
\* w is the encoding of value v under the declared type ct: a structure is a
\* map from each field name, as text, to the encoding of the field; a list
\* is the list of the encodings of its elements, in order; a dict is the
\* dict of the encodings of its keys and values; an enum is its integer;
\* anything else is itself.  The relation describes the fields declared with
\* a class or a tuple of classes; it says nothing of the value of a field
\* declared with an Array instance.
EncodingOf(w, v, ct) ==
    CASE v.t = "struct" ->
            /\ w.t = "dict"
            /\ {w.l[j].l[1] : j \in 1..Len(w.l)}
                   = {PyStr(Fields(v.s)[j].name) : j \in 1..Len(Fields(v.s))}
            /\ Len(w.l) = Len(Fields(v.s))
            /\ \A j \in 1..Len(Fields(v.s)) :
                  \/ Fields(v.s)[j].type.k = "arr"
                  \/ EncodingOf(DictGet(w, PyStr(Fields(v.s)[j].name)),
                                v.l[j], Fields(v.s)[j].type)
      [] v.t = "list" ->
            /\ w.t = "list"
            /\ Len(w.l) = Len(v.l)
            /\ \A j \in 1..Len(v.l) :
                  EncodingOf(w.l[j], v.l[j], RestClass(ct))
      [] v.t = "dict" ->
            /\ w.t = "dict"
            /\ Len(w.l) = Len(v.l)
            /\ \A j \in 1..Len(v.l) :
                  /\ EncodingOf(w.l[j].l[1], v.l[j].l[1],
                                PairClass(RestClass(ct)).l[1])
                  /\ EncodingOf(w.l[j].l[2], v.l[j].l[2],
                                PairClass(RestClass(ct)).l[2])
      [] v.t = "enum" -> w = PyInt(v.i)
      [] OTHER -> w = v

RECURSIVE NoEnumIn(_)
\* no node of the tree is an enum object
NoEnumIn(v) ==
    /\ v.t # "enum"
    /\ \A j \in 1..Len(v.l) : NoEnumIn(v.l[j])

\* C18: the tree that encoding a structure produces holds every enum value
\* as its integer, and no enum object, at every position: field, list
\* element, dict key, dict value, field of a nested structure and element of
\* a field declared with serialize.Array.
C18_NoEnumObjectInTree ==
    serOp = "to_dict" => NoEnumIn(tree)

(***************************************************************************)
(* Claims about scalars of another kind than the field declares.           *)
(***************************************************************************)
\* C19: encoding a structure whose scalar field holds a value of another
\* kind than the field declares fails with an error and emits nothing.
C19_MismatchedScalarRejected ==
    /\ serOp = "to_dict_other" => Raises(tree)
    /\ serOp = "to_bytes_other" => Raises(wire)

(***************************************************************************)
(* Claims about a wire map that holds a field under both forms of its name.*)
(***************************************************************************)
\* what from_dict sets a field to when it decodes the wire value v
DecodedFrom(v, ct) == IF Truthy(v) THEN Outcome(Decode(v, ct)) ELSE v

\* C21: when the wire map holds a field under the text form and under the
\* byte-string form of its name, from_dict decodes the value under the text
\* key, whatever that value is.
C21_TextKeyTakesPrecedence ==
    (serOp = "from_dict_both" /\ dec.t = "struct") =>
        \A j \in 1..Len(Fields(kind)) :
            (/\ DictFind(inDict.l, PyStr(Fields(kind)[j].name)) # 0
             /\ DictFind(inDict.l, PyBytes(Fields(kind)[j].name)) # 0)
                => dec.l[j] = DecodedFrom(DictGet(inDict,
                                             PyStr(Fields(kind)[j].name)),
                                          Fields(kind)[j].type)

(***************************************************************************)
(* Further claims about the key composer.                                  *)
(***************************************************************************)
\* the substring between the last "[" that precedes the first "]" and that
\* first "]"
BlockBeforeFirstClose(s) ==
    LET first_epos == Find(s, "]")
        before == Slice(s, 0, first_epos)
    IN  Slice(s, RFind(before, "[") + 1, first_epos)

\* the attributes that set_channel_id left in the PropertyUtilsParam are
\* those of the given block, with the channel id set
ParsedFrom(block) ==
    keyParam.append_dict =
        AppendDictSet(ParsePieces(Split(block, ","), << >>),
                      SET_CHANNEL_ID, StrOfInt(channelId))

Bracketed(k) == ValidKey(k) /\ HasChar(KeyText(k), "[")

\* C22: for every valid bracketed key the attributes parsed are those of the
\* substring between the last "[" that precedes the first "]" and that first
\* "]", split on "," and each piece on its first "=".
C22_BlockBeforeFirstClose ==
    (/\ keyOp = "set_channel_id"
     /\ Bracketed(keyArg)
     /\ ValidChannelId(channelId)) =>
        ParsedFrom(BlockBeforeFirstClose(KeyText(keyArg)))

RECURSIVE JoinWith(_, _)
\* sep.join(parts)
JoinWith(parts, sep) ==
    IF parts = << >> THEN << >>
    ELSE IF Len(parts) = 1 THEN parts[1]
    ELSE parts[1] \o sep \o JoinWith(Tail(parts), sep)

\* base + "[" + the stored entries, each as key then value, joined by ","
\* in stored order + "]"; the empty string for the empty base
Composed(u) ==
    IF u.key = << >> THEN << >>
    ELSE u.key \o <<"[">>
             \o JoinWith([j \in 1..Len(u.append_dict) |->
                             u.append_dict[j].k \o u.append_dict[j].v],
                         <<",">>)
             \o <<"]">>

\* C23: get_full_key returns the empty string when the parsed base is empty,
\* and otherwise base + "[" + the stored entries (key, ending in "=", then
\* value) joined by "," in stored order + "]", with no comma before the first
\* or after the last entry; with no entries this is base + "[]".
C23_FullKeyFormat ==
    /\ (keyOp = "get_full_key" /\ keyParam.made) =>
          /\ keyResult = Text(Composed(keyParam))
          /\ \A j \in 1..Len(keyParam.append_dict) :
                LET k == keyParam.append_dict[j].k
                IN  k # << >> /\ k[Len(k)] = "="
          /\ (keyParam.key # << >> /\ keyParam.append_dict = << >>) =>
                keyResult.s = keyParam.key \o <<"[", "]">>
    /\ (keyOp = "set_channel_id" /\ keyParam.made) =>
          keyResult = Bytes(Utf8Encode(Composed(keyParam)))

\* get_full_key of the plain key p, which holds no entry, gave p[]
C23_Witness ==
    /\ keyOp = "get_full_key"
    /\ keyArg = Text(<<"p">>)
    /\ keyParam.made
    /\ keyParam.append_dict = << >>
    /\ keyResult = Text(<<"p", "[", "]">>)

(***************************************************************************)
(* Instances of one structure kind, with the containers they hold kept by  *)
(* identity.  The kind is Board; the value of the Array instance that its  *)
(* _fields_ names is an object too, made when the class is defined.  Every *)
(* value that a caller hands to an operation is made for that call.        *)
(***************************************************************************)
BoardFields == Fields("Board")
\* the identity of the value of the Array instance in Board._fields_
SchemaCells == 1

\* Array.__call__: copy.deepcopy(self), an Array that nobody else holds
ArrayCallSelf(self, fresh) == self
ArrayCall(self, fresh) == fresh

\* the field values of an instance
View(inst, h) == [j \in 1..Len(inst) |-> h[inst[j]]]

\* Structure.__init__: value = class_type() for every field; for the Array
\* field, the value of the copy
InstConstruct ==
    /\ instOp # "rest"
    /\ Len(insts) < MaxInsts
    /\ LET fresh == [j \in 1..Len(BoardFields) |-> Len(heap) + j]
           made == [j \in 1..Len(BoardFields) |->
                       IF BoardFields[j].type.k = "arr"
                       THEN heap[SchemaCells]
                       ELSE Default(BoardFields[j].type)]
           held == [j \in 1..Len(BoardFields) |->
                       IF BoardFields[j].type.k = "arr"
                       THEN ArrayCall(SchemaCells, fresh[j])
                       ELSE fresh[j]]
       IN  /\ heap' = heap \o made
           /\ insts' = Append(insts, held)
           /\ instActor' = Len(insts) + 1
    /\ instOp' = "construct"
    /\ UNCHANGED instOps
    /\ UNCHANGED <<serVars, tcVars, evVars, keyVars, enumVars, sizeVars, closeVars,
                   loadVars>>

\* what the operations below leave alone
InstFrame ==
    /\ instOps' = instOps + 1
    /\ UNCHANGED <<serVars, tcVars, evVars, keyVars, enumVars, sizeVars, closeVars,
                   loadVars>>

\* the small values that callers store
InstValues == {PyInt(0), PyInt(1)}

\* instance.cells[k] = x
InstSetCell ==
    /\ instOps < MaxInstOps
    /\ \E i \in 1..Len(insts) :
         \E k \in 1..ArrayLen :
            \E x \in InstValues :
               /\ heap' = [heap EXCEPT ![insts[i][1]].l[k] = x]
               /\ instActor' = i
    /\ instOp' = "set_cell"
    /\ UNCHANGED insts
    /\ InstFrame

\* instance.items.append(x)
InstAppend ==
    /\ instOps < MaxInstOps
    /\ \E i \in 1..Len(insts) :
         \E x \in InstValues :
            /\ heap' = [heap EXCEPT ![insts[i][2]].l = Append(@, x)]
            /\ instActor' = i
    /\ instOp' = "append"
    /\ UNCHANGED insts
    /\ InstFrame

\* instance.table[0] = x
InstSetTable ==
    /\ instOps < MaxInstOps
    /\ \E i \in 1..Len(insts) :
         \E x \in InstValues :
            /\ heap' = [heap EXCEPT ![insts[i][3]].l = DictSet(@, PyInt(0), x)]
            /\ instActor' = i
    /\ instOp' = "set_table"
    /\ UNCHANGED insts
    /\ InstFrame

\* instance.mode.repeat = b
InstSetMode ==
    /\ instOps < MaxInstOps
    /\ \E i \in 1..Len(insts) :
         \E b \in BoolValues :
            /\ heap' = [heap EXCEPT ![insts[i][4]].l[1] = b]
            /\ instActor' = i
    /\ instOp' = "set_mode"
    /\ UNCHANGED insts
    /\ InstFrame

\* instance.to_dict(): _encode writes each encoded element back into the
\* list it was given
InstToDict ==
    /\ instOps < MaxInstOps
    /\ \E i \in 1..Len(insts) :
         /\ heap' = [id \in 1..Len(heap) |->
                        IF \E j \in 1..Len(BoardFields) : insts[i][j] = id
                        THEN LET j == CHOOSE j \in 1..Len(BoardFields) :
                                          insts[i][j] = id
                             IN  EncodeEffect(heap[id], BoardFields[j].type)
                        ELSE heap[id]]
         /\ instActor' = i
    /\ instOp' = "to_dict"
    /\ UNCHANGED insts
    /\ InstFrame

\* the Board whose bytes a caller decodes
SentBoard ==
    PyStruct("Board", << PyList([k \in 1..ArrayLen |-> PyInt(1)]),
                         PyList(<<PyInt(1)>>),
                         PyDict(<<PyPair(PyInt(0), PyInt(1))>>),
                         PyStruct("PlayModeProperty", <<PyBool(TRUE)>>) >>)

\* instance.decode(Decoder(bytes)): from_dict on what unpack() made, whose
\* containers become the field values
InstFromBytes ==
    /\ instOps < MaxInstOps
    /\ \E i \in 1..Len(insts) :
         LET got == FromDict(PyStruct("Board", View(insts[i], heap)),
                             Unpack(ToBytes(SentBoard)))
         IN  /\ got.t = "struct"
             /\ heap' = heap \o got.l
             /\ insts' = [insts EXCEPT ![i] =
                             [j \in 1..Len(BoardFields) |-> Len(heap) + j]]
             /\ instActor' = i
    /\ instOp' = "from_bytes"
    /\ InstFrame

InstInit ==
    /\ heap = << Default(BoardFields[1].type) >>
    /\ insts = << >>
    /\ instOp = "class"
    /\ instActor = 0
    /\ instOps = 0
    /\ SerAtRest
    /\ TcAtRest
    /\ EvAtRest
    /\ KeyAtRest
    /\ EnumAtRest
    /\ SizeAtRest
    /\ CloseAtRest
    /\ LoadAtRest

InstNext ==
    \/ InstConstruct
    \/ InstSetCell
    \/ InstAppend
    \/ InstSetTable
    \/ InstSetMode
    \/ InstToDict
    \/ InstFromBytes

SpecInst == InstInit /\ [][InstNext]_vars

\* no container is held by two instances, or by an instance and the schema
OwnContainers ==
    \A i, j \in 1..Len(insts) :
        \A a, b \in 1..Len(BoardFields) :
            /\ insts[i][a] # SchemaCells
            /\ insts[i][a] = insts[j][b] => (i = j /\ a = b)

TcStep ==
    \/ TcHeaderCheck
    \/ TcReadCount
    \/ TcSliceHeaderCheck
    \/ TcSliceReadHeader
    \/ TcSliceBodyCheck
    \/ TcSliceEvents
    \/ TcAssign

SpecTCFair == TcInit /\ [][TcNext]_vars /\ WF_vars(TcStep)

\* floor((L - 16) / 24): the bundles a buffer of L bytes has room for
Capacity(L) ==
    IF L < TEMPORAL_CONTRAST_DATA_HEADER THEN 0
    ELSE (L - TEMPORAL_CONTRAST_DATA_HEADER)
             \div TEMPORAL_CONTRAST_EVENTS_TIMESLICE_HEADER

TcEnded == tcPc \in {"done", "BufferError"}

\* C25: every from_bytes call ends, whatever the length and the content of
\* the buffer; each bundle made advances the offset by at least 24, so the
\* call makes at most floor((L - 16) / 24) bundles, and a declared count
\* above that number ends the call in BufferError.
C25_FromBytesTerminates ==
    /\ [](Len(tcBundles) <= Capacity(buf.len))
    /\ []((TcEnded /\ buf.n > Capacity(buf.len)) => tcPc = "BufferError")
    /\ [][Len(tcBundles') > Len(tcBundles) =>
              /\ Len(tcBundles') = Len(tcBundles) + 1
              /\ tcOffset' >= tcOffset
                                + TEMPORAL_CONTRAST_EVENTS_TIMESLICE_HEADER]_vars
    /\ (tcPc = "call") ~> TcEnded

\* a call that declared more bundles than its buffer has room for ended in
\* the error after making as many bundles as fit
C25_Witness ==
    /\ tcPc = "BufferError"
    /\ buf.len >= TEMPORAL_CONTRAST_DATA_HEADER
    /\ buf.n > Capacity(buf.len)
    /\ Len(tcBundles) = Capacity(buf.len)
    /\ Len(tcBundles) > 0

(***************************************************************************)
(* The size check of TemporalContrastEventsTimeslice.__init__ on Python    *)
(* ints of any size.  The count is what a c_uint32 holds, 0 .. 2^32 - 1;   *)
(* Python computes count * 6 + 24 exactly.  Numbers are kept in two limbs. *)
(***************************************************************************)
LimbBase == 16777216
BigOf(n) == Big(n \div LimbBase, n % LimbBase)
BigLess(a, b) == a.hi < b.hi \/ (a.hi = b.hi /\ a.lo < b.lo)

\* the largest value of a c_uint32: 2^32 - 1
BigUInt32Max == Big(255, LimbBase - 1)

\* a bundle size kept in an unsigned 32-bit word
BigDataSizeMod32(count) ==
    LET t == count.lo * EventSize + TEMPORAL_CONTRAST_EVENTS_TIMESLICE_HEADER
    IN  Big((count.hi * EventSize + t \div LimbBase) % 256, t % LimbBase)

\* self.count * ctypes.sizeof(TemporalContrastEvent) + header size
BigDataSize(count) ==
    LET t == count.lo * EventSize + TEMPORAL_CONTRAST_EVENTS_TIMESLICE_HEADER
    IN  Big(count.hi * EventSize + t \div LimbBase, t % LimbBase)

\* event counts: the small ones, those around the first count whose bundle
\* size reaches 2^32 (715827879), those around 2^31, and the largest
SizeCounts ==
    {BigOf(n) : n \in 0..MaxEvents}
        \cup {BigOf(715827878), BigOf(715827879), BigOf(715827880),
              BigOf(2147483647), Big(128, 0), Big(255, LimbBase - 2),
              BigUInt32Max}

\* remaining lengths, from 24 (the header check has passed): the small ones,
\* and some of the size of the largest bundles
SizeRemains ==
    {BigOf(n) : n \in 24..(24 + EventSize * MaxEvents + 1)}
        \cup {Big(255, LimbBase - 1), Big(256, 1), Big(256, 2), Big(256, 3),
              Big(1536, 11), Big(1536, 12), Big(1536, 17), Big(1536, 18),
              Big(1536, 19)}

SizeFrame ==
    UNCHANGED <<serVars, tcVars, evVars, keyVars, enumVars, instVars, closeVars,
                loadVars>>

\* self.data_size = ...; "if size < self.data_size: raise BufferError"
SizeCheck ==
    /\ sizeOp = "init"
    /\ sizeData' = BigDataSize(sizeCount)
    /\ sizeOp' = IF BigLess(sizeRemain, sizeData') THEN "BufferError"
                 ELSE "events"
    /\ UNCHANGED <<sizeCount, sizeRemain>>
    /\ SizeFrame

SizeInit ==
    /\ sizeCount \in SizeCounts
    /\ sizeRemain \in SizeRemains
    /\ sizeData = Big(0, 0)
    /\ sizeOp = "init"
    /\ SerAtRest
    /\ TcAtRest
    /\ EvAtRest
    /\ KeyAtRest
    /\ EnumAtRest
    /\ InstAtRest
    /\ CloseAtRest
    /\ LoadAtRest

SizeNext == SizeCheck

SpecSize == SizeInit /\ [][SizeNext]_vars

\* n - 24 for n >= 24, and floor(n / 6), n mod 6, in limbs
BigMinusHeader(n) ==
    IF n.lo >= TEMPORAL_CONTRAST_EVENTS_TIMESLICE_HEADER
    THEN Big(n.hi, n.lo - TEMPORAL_CONTRAST_EVENTS_TIMESLICE_HEADER)
    ELSE Big(n.hi - 1,
             n.lo + LimbBase - TEMPORAL_CONTRAST_EVENTS_TIMESLICE_HEADER)
BigOverEvent(n) ==
    Big(n.hi \div EventSize,
        ((n.hi % EventSize) * LimbBase + n.lo) \div EventSize)
BigModEvent(n) == ((n.hi % EventSize) * LimbBase + n.lo) % EventSize
AtLeastHeader(n) ==
    n.hi > 0 \/ n.lo >= TEMPORAL_CONTRAST_EVENTS_TIMESLICE_HEADER

\* C26: the bundle size compared with the remaining length is exactly
\* 24 + 6 * count for every count in [0, 2^32 - 1]: taking 24 away and
\* dividing by 6 gives the count back with nothing left over, and the check
\* passes only when (remaining - 24) / 6 events fit, so no count passes it
\* by a wrap-around.
C26_BundleSizeExact ==
    sizeOp \in {"BufferError", "events"} =>
        /\ AtLeastHeader(sizeData)
        /\ BigOverEvent(BigMinusHeader(sizeData)) = sizeCount
        /\ BigModEvent(BigMinusHeader(sizeData)) = 0
        /\ sizeOp = "events" <=>
              ~BigLess(BigOverEvent(BigMinusHeader(sizeRemain)), sizeCount)

\* the count 715827879, whose size is 2^32 + 2, was refused with 26 bytes
\* remaining
C26_Witness ==
    /\ sizeOp = "BufferError"
    /\ sizeCount = BigOf(715827879)
    /\ sizeRemain = BigOf(26)
    /\ sizeData = Big(256, 2)

(***************************************************************************)
(* Iteration over the event view with __next__.                            *)
(***************************************************************************)
FirstRecords(n) == [i \in 1..n |-> i - 1]

\* C27: __next__ yields records 0, 1, ..., count - 1 in index order, each
\* once, and then raises StopIteration; the cursor never exceeds count and
\* never goes back, so once exhausted every later __next__, also after
\* __iter__ on the same object, raises StopIteration; indexing and slicing
\* leave the cursor alone and give what they give on a new view.
C27_NextYieldsEachOnce ==
    /\ [](evOp # "rest" =>
              /\ events.cursor <= events.count
              /\ evYielded = FirstRecords(events.cursor))
    /\ [][events'.cursor >= events.cursor]_vars
    /\ [][evOp' = "next" =>
              IF Len(evYielded) < events.count
              THEN /\ evResult' = [kind |-> "item",
                                   items |-> <<Len(evYielded)>>]
                   /\ evYielded' = Append(evYielded, Len(evYielded))
              ELSE /\ evResult'.kind = "StopIteration"
                   /\ evYielded' = evYielded]_vars
    /\ [][evOp' = "iter" => events' = events /\ evYielded' = evYielded]_vars
    /\ [][evOp' \in {"getitem_int", "getitem_slice", "getitem_other"} =>
              /\ events' = events
              /\ evYielded' = evYielded
              /\ evOp' = "getitem_int" =>
                    evResult' = IF evArg'.num \in 0..(events.count - 1)
                                THEN [kind |-> "item",
                                      items |-> <<evArg'.num>>]
                                ELSE [kind |-> "IndexError", items |-> << >>]
              /\ evOp' = "getitem_slice" /\ evArg'.step # <<0>> =>
                    evResult' = [kind |-> "tuple",
                                 items |-> Range(SliceIndices(evArg',
                                                              events.count))]]_vars

\* a view of two records or more was read to its end, and the __next__ made
\* on the exhausted view raised StopIteration
C27_Witness ==
    /\ evOp = "next"
    /\ evResult.kind = "StopIteration"
    /\ events.count >= 2
    /\ evYielded = FirstRecords(events.count)

(***************************************************************************)
(* Chained calls of set_channel_id.                                        *)
(***************************************************************************)
\* the call just made was given the result of an earlier call, and both
\* calls had a valid channel id
SecondWrite ==
    /\ keyOp = "set_channel_id"
    /\ keyPast # << >>
    /\ ValidChannelId(keyPast[Len(keyPast)].channel_id)
    /\ ValidChannelId(channelId)

\* C28: last write wins: for every key k and valid channel ids a and b,
\* set_channel_id(set_channel_id(k, a), b) is set_channel_id(k, b) (so the
\* call is idempotent), and parsing a composed key again gives the base and
\* the ordered attribute entries it was composed from.
C28_LastWriteWins ==
    /\ SecondWrite =>
          keyResult = SetChannelId(keyPast[Len(keyPast)].key, channelId)
    /\ (/\ keyOp = "set_channel_id"
        /\ ValidChannelId(channelId)
        /\ keyResult.t = "bytes"
        /\ keyResult.s # << >>) =>
          /\ PropertyUtilsParam(keyResult).key = keyParam.key
          /\ PropertyUtilsParam(keyResult).append_dict = keyParam.append_dict

(***************************************************************************)
(* Core.close_stream.  The native senscord_core_close_stream is outside    *)
(* the package: for any handle it returns 0 or an error code, or the       *)
(* library is not loaded.                                                  *)
(***************************************************************************)
StreamIds == 1..MaxStreams

\* an except branch that leaves the handle as _release left it
KeepReleased(stream_handle, current) == current

\* "except Exception: stream._set_handle(stream_handle)"
SetHandle(stream_handle, current) == stream_handle

\* Stream._release
Release == 0

CloseFrame ==
    UNCHANGED <<serVars, tcVars, evVars, keyVars, enumVars, instVars, sizeVars,
                loadVars>>

\* close_stream with something that is not a Stream: TypeError
CloseNotStream ==
    /\ closePc = "idle"
    /\ closeCalls < MaxCloses
    /\ closeRaised' = "TypeError"
    /\ closeStream' = 0
    /\ closeCalls' = closeCalls + 1
    /\ UNCHANGED <<streams, closePc, closeSaved, lastClose, closedOnce>>
    /\ CloseFrame

\* stream_handle = stream._get_handle(); stream._release(); the native call
\* is entered
CloseBegin ==
    /\ closePc = "idle"
    /\ closeCalls < MaxCloses
    /\ \E st \in StreamIds :
          /\ closeStream' = st
          /\ closeSaved' = streams[st]
          /\ streams' = [streams EXCEPT ![st] = Release]
    /\ closePc' = "native"
    /\ closeRaised' = "none"
    /\ closeCalls' = closeCalls + 1
    /\ UNCHANGED <<lastClose, closedOnce>>
    /\ CloseFrame

\* core_close_stream returns
CloseNativeOk ==
    /\ closePc = "native"
    /\ closePc' = "idle"
    /\ lastClose' = [lastClose EXCEPT ![closeStream] = "ok"]
    /\ closedOnce' = [closedOnce EXCEPT ![closeStream] = TRUE]
    /\ UNCHANGED <<streams, closeStream, closeSaved, closeRaised, closeCalls>>
    /\ CloseFrame

\* core_close_stream raises OperationError or ApiError
CloseNativeRaise ==
    /\ closePc = "native"
    /\ \E e \in {"OperationError", "ApiError"} : closeRaised' = e
    /\ streams' = [streams EXCEPT
                      ![closeStream] = SetHandle(closeSaved, streams[closeStream])]
    /\ closePc' = "idle"
    /\ lastClose' = [lastClose EXCEPT ![closeStream] = "raised"]
    /\ UNCHANGED <<closeStream, closeSaved, closedOnce, closeCalls>>
    /\ CloseFrame

\* the streams are those open_stream returned: handles are not 0
CloseInit ==
    /\ streams \in [StreamIds -> 1..MaxHandle]
    /\ closePc = "idle"
    /\ closeStream = 0
    /\ closeSaved = 0
    /\ closeRaised = "none"
    /\ lastClose = [st \in StreamIds |-> "none"]
    /\ closedOnce = [st \in StreamIds |-> FALSE]
    /\ closeCalls = 0
    /\ SerAtRest
    /\ TcAtRest
    /\ EvAtRest
    /\ KeyAtRest
    /\ EnumAtRest
    /\ InstAtRest
    /\ SizeAtRest
    /\ LoadAtRest

CloseNext ==
    \/ CloseNotStream
    \/ CloseBegin
    \/ CloseNativeOk
    \/ CloseNativeRaise

SpecClose == CloseInit /\ [][CloseNext]_vars

\* the handle is 0 during the native call; a call that raises puts back the
\* value the handle had before the call, a call that returns leaves 0
CloseRestoresOnFailure ==
    /\ [](closePc = "native" => streams[closeStream] = 0)
    /\ [][closePc = "idle" /\ closePc' = "native" =>
              /\ closeSaved' = streams[closeStream']
              /\ \A st \in StreamIds \ {closeStream'} :
                    streams'[st] = streams[st]]_vars
    /\ [][closePc = "native" /\ closePc' = "idle" =>
              /\ streams'[closeStream] =
                    IF closeRaised' = "none" THEN 0 ELSE closeSaved
              /\ \A st \in StreamIds \ {closeStream} :
                    streams'[st] = streams[st]]_vars

\* C29 as stated: ..., hence after any sequence of close_stream calls a
\* Stream's handle is 0 exactly when the last close attempted on it
\* succeeded.
C29_ZeroIffLastCloseSucceeded ==
    /\ CloseRestoresOnFailure
    /\ [](closePc = "idle" =>
              \A st \in StreamIds : streams[st] = 0 <=> lastClose[st] = "ok")

\* C29: close_stream sets the handle to 0 before the native close; if the
\* native close raises, the handle gets back the value it had before the
\* call and the error propagates; if it succeeds, the handle stays 0.  After
\* any sequence of calls the handle is 0 exactly when some close attempted on
\* the Stream has succeeded; a close that fails after one that succeeded
\* leaves 0.
C29_ZeroIffSomeCloseSucceeded ==
    /\ CloseRestoresOnFailure
    /\ [](closePc = "idle" =>
              \A st \in StreamIds :
                 /\ streams[st] = 0 <=> closedOnce[st]
                 /\ lastClose[st] = "ok" => streams[st] = 0)

\* a Stream closed with success was closed again, the native close raised,
\* and the handle is 0
C29_Witness ==
    /\ closePc = "idle"
    /\ closeStream \in StreamIds
    /\ closeRaised = "ApiError"
    /\ lastClose[closeStream] = "raised"
    /\ closedOnce[closeStream]
    /\ streams[closeStream] = 0

(***************************************************************************)
(* Core._load_library and SensCordC.load_dll, called from several threads. *)
(* The file system and the dynamic loader are the environment: a search    *)
(* finds the library file or not, ctypes.CDLL loads a file or raises       *)
(* OSError, and the companion library file is there or not.                *)
(***************************************************************************)
Threads == 1..MaxThreads
Platforms == {"Windows", "Darwin", "Linux"}

\* the statements of _load_library that run inside "with Core._lock"
LockedSection == {"locked", "search", "load_dll", "py_dll", "set_loaded"}

LoadFrame ==
    UNCHANGED <<serVars, tcVars, evVars, keyVars, enumVars, instVars, sizeVars,
                closeVars>>

\* a thread calls Core._load_library(path)
LoadCall(t) ==
    /\ loadPc[t] = "idle"
    /\ loadCalls < MaxLoadCalls
    /\ loadPc' = [loadPc EXCEPT ![t] = "acquire"]
    /\ loadRaised' = [loadRaised EXCEPT ![t] = "running"]
    /\ loadCalls' = loadCalls + 1
    /\ UNCHANGED <<lockHolder, coreLoaded, senscordDll, senscordPyDll,
                   loadPlatform, cdllLoads>>
    /\ LoadFrame

\* "with Core._lock:" is entered when the lock is free
LoadAcquire(t) ==
    /\ loadPc[t] = "acquire"
    /\ lockHolder = 0
    /\ lockHolder' = t
    /\ loadPc' = [loadPc EXCEPT ![t] = "locked"]
    /\ UNCHANGED <<coreLoaded, senscordDll, senscordPyDll, loadPlatform,
                   loadRaised, cdllLoads, loadCalls>>
    /\ LoadFrame

\* the with block is left, by return or by an exception: the lock is
\* released
LoadLeave(t, how) ==
    /\ lockHolder' = 0
    /\ loadPc' = [loadPc EXCEPT ![t] = "idle"]
    /\ loadRaised' = [loadRaised EXCEPT ![t] = how]

\* "if Core._loaded: return"
LoadCheckLoaded(t) ==
    /\ loadPc[t] = "locked"
    /\ IF coreLoaded
       THEN LoadLeave(t, "returned")
       ELSE /\ loadPc' = [loadPc EXCEPT ![t] = "search"]
            /\ UNCHANGED <<lockHolder, loadRaised>>
    /\ UNCHANGED <<coreLoaded, senscordDll, senscordPyDll, loadPlatform,
                   cdllLoads, loadCalls>>
    /\ LoadFrame

\* the path, the loop over the directories up to the call of load_dll, and
\* "if not found: raise InitializationError"
LoadSearch(t) ==
    /\ loadPc[t] = "search"
    /\ \E fileFound \in BOOLEAN :
          IF fileFound
          THEN /\ loadPc' = [loadPc EXCEPT ![t] = "load_dll"]
               /\ UNCHANGED <<lockHolder, loadRaised>>
          ELSE LoadLeave(t, "InitializationError")
    /\ UNCHANGED <<coreLoaded, senscordDll, senscordPyDll, loadPlatform,
                   cdllLoads, loadCalls>>
    /\ LoadFrame

\* load_dll up to the assignment of _senscord_dll: returns at once when the
\* library is set; on Windows senscord_osal.dll comes first
LoadDll(t) ==
    /\ loadPc[t] = "load_dll"
    /\ IF senscordDll # "None"
       THEN /\ loadPc' = [loadPc EXCEPT ![t] = "set_loaded"]
            /\ UNCHANGED <<lockHolder, loadRaised, senscordDll, cdllLoads>>
       ELSE \E how \in {"CDLL", "OSError"}
                          \cup (IF loadPlatform = "Windows"
                                THEN {"OperationError"} ELSE {}) :
               IF how = "CDLL"
               THEN /\ senscordDll' = "CDLL"
                    /\ cdllLoads' = cdllLoads + 1
                    /\ loadPc' = [loadPc EXCEPT ![t] = "py_dll"]
                    /\ UNCHANGED <<lockHolder, loadRaised>>
               ELSE /\ LoadLeave(t, how)
                    /\ UNCHANGED <<senscordDll, cdllLoads>>
    /\ UNCHANGED <<coreLoaded, senscordPyDll, loadPlatform, loadCalls>>
    /\ LoadFrame

\* load_dll: _senscord_py_dll = ctypes.CDLL(_make_link_lib_path(...))
LoadPyDll(t) ==
    /\ loadPc[t] = "py_dll"
    /\ \E how \in {"CDLL", "OSError", "OperationError"} :
          IF how = "CDLL"
          THEN /\ senscordPyDll' = "CDLL"
               /\ loadPc' = [loadPc EXCEPT ![t] = "set_loaded"]
               /\ UNCHANGED <<lockHolder, loadRaised>>
          ELSE /\ LoadLeave(t, how)
               /\ UNCHANGED senscordPyDll
    /\ UNCHANGED <<coreLoaded, senscordDll, loadPlatform, cdllLoads, loadCalls>>
    /\ LoadFrame

\* found = True; break; Core._loaded = True; the with block ends
LoadSetLoaded(t) ==
    /\ loadPc[t] = "set_loaded"
    /\ coreLoaded' = TRUE
    /\ LoadLeave(t, "returned")
    /\ UNCHANGED <<senscordDll, senscordPyDll, loadPlatform, cdllLoads,
                   loadCalls>>
    /\ LoadFrame

LoadInit ==
    /\ loadPc = [t \in Threads |-> "idle"]
    /\ lockHolder = 0
    /\ coreLoaded = FALSE
    /\ senscordDll = "None"
    /\ senscordPyDll = "None"
    /\ loadPlatform \in Platforms
    /\ loadRaised = [t \in Threads |-> "none"]
    /\ cdllLoads = 0
    /\ loadCalls = 0
    /\ SerAtRest
    /\ TcAtRest
    /\ EvAtRest
    /\ KeyAtRest
    /\ EnumAtRest
    /\ InstAtRest
    /\ SizeAtRest
    /\ CloseAtRest

LoadNext ==
    \E t \in Threads :
       \/ LoadCall(t)
       \/ LoadAcquire(t)
       \/ LoadCheckLoaded(t)
       \/ LoadSearch(t)
       \/ LoadDll(t)
       \/ LoadPyDll(t)
       \/ LoadSetLoaded(t)

SpecLoad == LoadInit /\ [][LoadNext]_vars

InSection(t) == loadPc[t] \in LockedSection

\* the section runs under the lock one caller at a time, the library is
\* loaded at most once, _loaded never returns to False, and a call that
\* raises InitializationError leaves _loaded False and the lock free
LoadSectionExclusive ==
    /\ [](\A t \in Threads : InSection(t) <=> lockHolder = t)
    /\ [](\A t, u \in Threads : InSection(t) /\ InSection(u) => t = u)
    /\ [](cdllLoads <= 1)
    /\ [][coreLoaded => coreLoaded']_vars
    /\ [](coreLoaded => senscordDll = "CDLL")
    /\ [][\A t \in Threads :
             loadRaised'[t] = "InitializationError"
                 /\ loadRaised[t] # "InitializationError" =>
                 /\ ~coreLoaded'
                 /\ lockHolder' = 0
                 /\ loadPc'[t] = "idle"]_vars

\* C30: under any interleaving of concurrent _load_library calls the
\* search-and-load section runs under Core._lock one caller at a time, the
\* native library is loaded at most once, Core._loaded becomes True only
\* after a successful load (load_dll has loaded the library and its
\* companion library) and never returns to False, and a call that finds no
\* library raises InitializationError with _loaded still False and the lock
\* released.
C30_LoadedOnlyAfterSuccessfulLoad ==
    /\ LoadSectionExclusive
    /\ [](coreLoaded => senscordDll = "CDLL" /\ senscordPyDll = "CDLL")

====
